---- MODULE Spec2Model ----
(***************************************************************************)
(* A model of the gameplay simulation core of sports_engine: Ball          *)
(* Dynamics (BallPhysics), the Ball entity, Match State (Match) and the    *)
(* Team Coordinator (AIManager / AIPlayer).                                *)
(*                                                                         *)
(* Numbers.  Every f32 quantity q of the program is the integer 1000*q     *)
(* (positions in mm, velocities in mm/s, times in ms, angles in mrad).     *)
(* A product or quotient of two such quantities is rounded to the nearest  *)
(* representable value, as the float unit does.                            *)
(***************************************************************************)
EXTENDS Integers, Sequences, FiniteSets, TLC

SCALE == 1000

Abs(a) == IF a < 0 THEN -a ELSE a

Min(a, b) == IF a < b THEN a ELSE b

Max(a, b) == IF a > b THEN a ELSE b

Clamp(v, lo, hi) == IF v < lo THEN lo ELSE IF hi < v THEN hi ELSE v

CopySign(mag, s) == IF s < 0 THEN -Abs(mag) ELSE Abs(mag)

RoundDivPos(n, d) == (n \div d) + (IF 2 * (n % d) >= d THEN 1 ELSE 0)

RoundDiv(n, d) == IF n >= 0 THEN RoundDivPos(n, d) ELSE -RoundDivPos(-n, d)

\* a * b and a / b of two f32 values
Mul(a, b) == RoundDiv(a * b, SCALE)

Div(a, b) == IF b < 0 THEN -RoundDiv(a * SCALE, -b) ELSE RoundDiv(a * SCALE, b)

\* Newton's iteration for the integer square root of n, from an x that is
\* not below it
RECURSIVE SqrtSearch(_, _)
SqrtSearch(n, x) ==
    LET y == (x + (n \div x)) \div 2
    IN IF y >= x THEN x ELSE SqrtSearch(n, y)

\* the square root of the integer n, rounded to the nearest integer; x0 is
\* a positive number not below it
ISqrt(n, x0) ==
    LET r == IF n = 0 THEN 0 ELSE SqrtSearch(n, x0)
    IN IF n - r * r > r THEN r + 1 ELSE r

(***************************************************************************)
(* glm::vec3                                                               *)
(***************************************************************************)
Vec3(a, b, c) == [x |-> a, y |-> b, z |-> c]

Zero3 == Vec3(0, 0, 0)

VAdd(u, v) == Vec3(u.x + v.x, u.y + v.y, u.z + v.z)

VSub(u, v) == Vec3(u.x - v.x, u.y - v.y, u.z - v.z)

\* v * s and v / s for an f32 s
VScale(v, s) == Vec3(Mul(v.x, s), Mul(v.y, s), Mul(v.z, s))

VDiv(v, s) == Vec3(Div(v.x, s), Div(v.y, s), Div(v.z, s))

Cross(u, v) ==
    Vec3(Mul(u.y, v.z) - Mul(u.z, v.y),
         Mul(u.z, v.x) - Mul(u.x, v.z),
         Mul(u.x, v.y) - Mul(u.y, v.x))

\* the power of ten that brings a component of magnitude m into the range
\* whose squares can be summed
Shrink(m) ==
    IF m <= 26000 THEN 1
    ELSE IF m <= 260000 THEN 10
    ELSE IF m <= 2600000 THEN 100 ELSE 1000

\* glm::length: sqrt(dot(v, v))
Length(v) ==
    LET m == Max(Abs(v.x), Max(Abs(v.y), Abs(v.z)))
        k == Shrink(m)
        a == RoundDiv(v.x, k)
        b == RoundDiv(v.y, k)
        c == RoundDiv(v.z, k)
    IN k * ISqrt(a * a + b * b + c * c, 2 * RoundDiv(m, k) + 1)

\* glm::normalize (of a non-zero vector)
\* the factor that brings a short vector to full precision
Grow(m) ==
    IF m < 26 THEN 1000
    ELSE IF m < 260 THEN 100
    ELSE IF m < 2600 THEN 10 ELSE 1

\* the vector k * v
Times(v, k) == Vec3(v.x * k, v.y * k, v.z * k)

\* glm::normalize: v / length(v); a float keeps its relative precision
\* however short v is, so a short v is measured in finer units
Normalize(v) ==
    VDiv(Times(v, Grow(Max(Abs(v.x), Max(Abs(v.y), Abs(v.z))))),
         Length(Times(v, Grow(Max(Abs(v.x), Max(Abs(v.y), Abs(v.z)))))))

\* std::pow(base, dt) for 0 < base <= 1: the binomial series of
\* (1 - u)^dt, u = 1 - base, to the second order, in millionths
Pow(base, dt) ==
    LET u == SCALE - base
        first == dt * u
        second == RoundDiv(Mul(dt, SCALE - dt) * Mul(u, u), 2)
    IN RoundDiv(SCALE * SCALE - first - second, SCALE)

(***************************************************************************)
(* BallPhysics constants (BallPhysics.hpp) and the field (Application)     *)
(***************************************************************************)
BALL_RADIUS == 220

BALL_MASS == 430

GRAVITY == 9810

AIR_DENSITY == 1200

DRAG_COEFFICIENT == 200

MAGNUS_COEFFICIENT == 500

BOUNCE_FACTOR == 700

ROLLING_FRICTION == 300

SPIN_DECAY == 980

FIELD_LENGTH == 105000

FIELD_WIDTH == 68000

GOAL_WIDTH == 7320

GOAL_HEIGHT == 2440

\* FieldBounds m_fieldBounds, as Application::init fills it
Bounds ==
    [length |-> FIELD_LENGTH, width |-> FIELD_WIDTH,
     goalWidth |-> GOAL_WIDTH, goalHeight |-> GOAL_HEIGHT]

\* struct BallState
BallState(p, v, w, r) ==
    [position |-> p, velocity |-> v, angularVelocity |-> w, rotationAngle |-> r]

(***************************************************************************)
(* BallPhysics                                                             *)
(***************************************************************************)
IsInAir(b) == b.position.y > BALL_RADIUS + 300

IsLow(b) == b.position.y < BALL_RADIUS + 150 /\ b.velocity.y < 500

ApplyGravity(b, dt) == [b EXCEPT !.velocity.y = @ - Mul(GRAVITY, dt)]

ApplyAirDrag(b, dt) ==
    LET ballSpeed == Length(b.velocity)
    IN IF ballSpeed < 10 THEN b
       ELSE LET velDir == VDiv(b.velocity, ballSpeed)
                ballArea == Mul(Mul(3142, BALL_RADIUS), BALL_RADIUS)
                dragForce ==
                    Mul(Mul(Mul(Mul(Mul(500, AIR_DENSITY), DRAG_COEFFICIENT),
                                ballArea), ballSpeed), ballSpeed)
                dragAccel == Div(dragForce, BALL_MASS)
            IN [b EXCEPT !.velocity =
                    VSub(@, VScale(VScale(velDir, dragAccel), dt))]

ApplyMagnusEffect(b, dt) ==
    LET raw == VScale(Cross(b.angularVelocity, b.velocity), MAGNUS_COEFFICIENT)
        maxMagnusAccel == 15000
        magnusAccel == Div(Length(raw), BALL_MASS)
        magnusForce ==
            IF magnusAccel > maxMagnusAccel
            THEN VScale(raw, Div(maxMagnusAccel, magnusAccel))
            ELSE raw
    IN [b EXCEPT !.velocity = VAdd(@, VScale(VDiv(magnusForce, BALL_MASS), dt))]

\* the mutant of MagnusApplies: the thresholds taken inclusively
MagnusAppliesInclusive(b, inAir, ballSpeed) ==
    inAir /\ Length(b.angularVelocity) >= 100 /\ ballSpeed >= 1000

\* the guard of the Magnus step in BallPhysics::update
MagnusApplies(b, inAir, ballSpeed) ==
    inAir /\ Length(b.angularVelocity) > 100 /\ ballSpeed > 1000

ApplySpinDecay(b, dt) ==
    IF IsInAir(b)
    THEN [b EXCEPT !.angularVelocity = VScale(@, Pow(SPIN_DECAY, dt))]
    ELSE [b EXCEPT !.angularVelocity = VScale(@, Pow(900, dt))]

\* the mutant of HandleGroundCollision: the clamp only on a bounce
HandleGroundCollisionBounceOnly(b) ==
    IF b.position.y < BALL_RADIUS /\ b.velocity.y < -500
    THEN [b EXCEPT !.position.y = BALL_RADIUS,
                   !.velocity = Vec3(Mul(@.x, 900),
                                     Mul(-@.y, BOUNCE_FACTOR),
                                     Mul(@.z, 900)),
                   !.angularVelocity = VScale(@, 700)]
    ELSE b

HandleGroundCollision(b) ==
    LET groundY == BALL_RADIUS
    IN IF b.position.y < groundY
       THEN IF b.velocity.y < -500
            THEN [b EXCEPT !.position.y = groundY,
                           !.velocity = Vec3(Mul(@.x, 900),
                                             Mul(-@.y, BOUNCE_FACTOR),
                                             Mul(@.z, 900)),
                           !.angularVelocity = VScale(@, 700)]
            ELSE [b EXCEPT !.position.y = groundY, !.velocity.y = 0]
       ELSE b

ApplyRollingFriction(b, dt) ==
    LET groundY == BALL_RADIUS
    IN IF b.position.y <= groundY + 50
       THEN LET groundSpeed == Length(Vec3(b.velocity.x, 0, b.velocity.z))
            IN IF groundSpeed > 10
               THEN LET frictionDecel == Mul(Mul(ROLLING_FRICTION, GRAVITY), dt)
                        newSpeed == Max(0, groundSpeed - frictionDecel)
                        frictionFactor == Div(newSpeed, groundSpeed)
                    IN [b EXCEPT !.velocity.x = Mul(@, frictionFactor),
                                 !.velocity.z = Mul(@, frictionFactor)]
               ELSE [b EXCEPT !.velocity.x = 0, !.velocity.z = 0]
       ELSE b

HandleFieldBoundaries(b, bounds) ==
    LET halfLength == Div(bounds.length, 2000)
        halfWidth == Div(bounds.width, 2000)
        goalHalfW == Div(bounds.goalWidth, 2000)
        inGoalArea == Abs(b.position.z) < goalHalfW
                      /\ b.position.y < bounds.goalHeight
        b1 == IF Abs(b.position.x) > halfLength /\ ~inGoalArea
              THEN [b EXCEPT !.position.x = CopySign(halfLength, @),
                             !.velocity.x = Mul(-@, 500),
                             !.angularVelocity = VScale(@, 500)]
              ELSE b
    IN IF Abs(b1.position.z) > halfWidth + 500
       THEN [b1 EXCEPT !.position.z = CopySign(halfWidth + 500, @),
                       !.velocity.z = Mul(-@, 500),
                       !.angularVelocity = VScale(@, 500)]
       ELSE b1

\* BallPhysics::update up to the boundary step: the forces, the integration,
\* the ground collision and the rolling friction
Integrated(ball0, deltaTime) ==
    LET inAir == IsInAir(ball0)
        ballSpeed == Length(ball0.velocity)
        b1 == ApplyGravity(ball0, deltaTime)
        b2 == IF inAir /\ ballSpeed > 100 THEN ApplyAirDrag(b1, deltaTime) ELSE b1
        b3 == IF MagnusApplies(b2, inAir, ballSpeed)
              THEN ApplyMagnusEffect(b2, deltaTime) ELSE b2
        b4 == ApplySpinDecay(b3, deltaTime)
        b5 == [b4 EXCEPT !.position = VAdd(@, VScale(b4.velocity, deltaTime))]
        b6 == IF ballSpeed > 100
              THEN [b5 EXCEPT !.rotationAngle =
                        @ + Mul(Mul(ballSpeed, deltaTime), 3000)]
              ELSE b5
        b7 == HandleGroundCollision(b6)
    IN ApplyRollingFriction(b7, deltaTime)

\* BallPhysics::update
Update(ball0, deltaTime, bounds) ==
    HandleFieldBoundaries(Integrated(ball0, deltaTime), bounds)

(***************************************************************************)
(* Ball                                                                    *)
(***************************************************************************)
\* the mutant of Reset: the velocity is left as it was
ResetKeepsVelocity(b) ==
    [b EXCEPT !.position = Vec3(0, 500, 0),
              !.angularVelocity = Zero3,
              !.rotationAngle = 0]

\* Ball::reset
Reset(b) ==
    [b EXCEPT !.position = Vec3(0, 500, 0),
              !.velocity = Zero3,
              !.angularVelocity = Zero3,
              !.rotationAngle = 0]

(***************************************************************************)
(* Match                                                                   *)
(***************************************************************************)
GOAL_CELEBRATION_DURATION == 3000

\* the Match object as Match() = default and Match::reset leave it
NewMatch ==
    [scoreLeft |-> 0, scoreRight |-> 0, goalScored |-> FALSE,
     celebrationTimer |-> 0, lastScoringTeam |-> -1]

\* the mutant of CheckGoal: the goal line taken without the ball radius
CheckGoalNoRadius(m, ballPos) ==
    IF m.goalScored THEN [match |-> m, ret |-> FALSE]
    ELSE LET goalLineX == Div(FIELD_LENGTH, 2000)
             goalHalfWidth == Div(GOAL_WIDTH, 2000)
             inGoalZ == Abs(ballPos.z) < goalHalfWidth
             inGoalY == ballPos.y < GOAL_HEIGHT /\ ballPos.y > 0
         IN IF ballPos.x > goalLineX /\ inGoalZ /\ inGoalY
            THEN [match |-> [m EXCEPT !.scoreRight = @ + 1,
                                      !.goalScored = TRUE,
                                      !.celebrationTimer = GOAL_CELEBRATION_DURATION,
                                      !.lastScoringTeam = 0],
                  ret |-> TRUE]
            ELSE IF ballPos.x < -goalLineX /\ inGoalZ /\ inGoalY
            THEN [match |-> [m EXCEPT !.scoreLeft = @ + 1,
                                      !.goalScored = TRUE,
                                      !.celebrationTimer = GOAL_CELEBRATION_DURATION,
                                      !.lastScoringTeam = 1],
                  ret |-> TRUE]
            ELSE [match |-> m, ret |-> FALSE]

\* the mutant of CheckGoal: no "already scored" guard
CheckGoalNoGuard(m, ballPos) ==
    CheckGoalNoRadius([m EXCEPT !.goalScored = FALSE],
                      [ballPos EXCEPT !.x = IF @ > 0 THEN @ - BALL_RADIUS
                                            ELSE @ + BALL_RADIUS])

\* Match::checkGoal: the Match object it leaves and the value it returns
CheckGoal(m, ballPos) ==
    IF m.goalScored THEN [match |-> m, ret |-> FALSE]
    ELSE LET goalLineX == Div(FIELD_LENGTH, 2000)
             goalHalfWidth == Div(GOAL_WIDTH, 2000)
             ballRadius == BALL_RADIUS
             inGoalZ == Abs(ballPos.z) < goalHalfWidth
             inGoalY == ballPos.y < GOAL_HEIGHT /\ ballPos.y > 0
         IN IF ballPos.x > goalLineX + ballRadius /\ inGoalZ /\ inGoalY
            THEN [match |-> [m EXCEPT !.scoreRight = @ + 1,
                                      !.goalScored = TRUE,
                                      !.celebrationTimer = GOAL_CELEBRATION_DURATION,
                                      !.lastScoringTeam = 0],
                  ret |-> TRUE]
            ELSE IF ballPos.x < -goalLineX - ballRadius /\ inGoalZ /\ inGoalY
            THEN [match |-> [m EXCEPT !.scoreLeft = @ + 1,
                                      !.goalScored = TRUE,
                                      !.celebrationTimer = GOAL_CELEBRATION_DURATION,
                                      !.lastScoringTeam = 1],
                  ret |-> TRUE]
            ELSE [match |-> m, ret |-> FALSE]

\* the mutant of ResetAfterGoal: the ball is left where it is
ResetAfterGoalKeepsBall(m, b) ==
    [match |-> [m EXCEPT !.goalScored = FALSE, !.celebrationTimer = 0],
     ball |-> b]

\* the mutant of ResetAfterGoal: the countdown is left running
ResetAfterGoalKeepsTimer(m, b) ==
    [match |-> [m EXCEPT !.goalScored = FALSE],
     ball |-> Reset(b)]

\* the mutant of ResetAfterGoal: the last scoring team is forgotten
ResetAfterGoalForgetsTeam(m, b) ==
    [match |-> [m EXCEPT !.goalScored = FALSE, !.celebrationTimer = 0,
                         !.lastScoringTeam = -1],
     ball |-> Reset(b)]

\* Match::resetAfterGoal: the Match object and the ball it leaves
ResetAfterGoal(m, b) ==
    [match |-> [m EXCEPT !.goalScored = FALSE, !.celebrationTimer = 0],
     ball |-> Reset(b)]

\* Match::update: the Match object and the ball it leaves
MatchUpdateOp(m, b, deltaTime) ==
    IF m.goalScored
    THEN LET m1 == [m EXCEPT !.celebrationTimer = @ - deltaTime]
         IN IF m1.celebrationTimer <= 0
            THEN ResetAfterGoal(m1, b)
            ELSE [match |-> m1, ball |-> b]
    ELSE [match |-> CheckGoal(m, b.position).match, ball |-> b]

(***************************************************************************)
(* std::atan2 and std::exp                                                 *)
(***************************************************************************)
\* atan(a) for 0 <= a <= 1: pi/4 a - a (a - 1) (0.2447 + 0.0663 a), which is
\* within 0.0015 rad of it
AtanUnit(a) == Mul(785, a) - Mul(Mul(a, a - SCALE), 245 + Mul(66, a))

\* std::atan2(y, x)
Atan2(y, x) ==
    IF x = 0 /\ y = 0 THEN 0
    ELSE LET ax == Abs(x)
             ay == Abs(y)
             r0 == IF ay <= ax THEN AtanUnit(Div(ay, ax))
                   ELSE 1571 - AtanUnit(Div(ax, ay))
             r1 == IF x < 0 THEN 3142 - r0 ELSE r0
         IN IF y < 0 THEN -r1 ELSE r1

\* std::exp(-x) for x >= 0: the Taylor series to the fourth order on
\* [0, 0.5], and exp(-x) = exp(-x/2) * exp(-(x - x/2)) beyond
RECURSIVE ExpNeg(_)
ExpNeg(x) ==
    IF x > 500
    THEN Mul(ExpNeg(x \div 2), ExpNeg(x - (x \div 2)))
    ELSE LET x2 == Mul(x, x)
             x3 == Mul(x2, x)
             x4 == Mul(x3, x)
         IN SCALE - x + RoundDiv(x2, 2) - RoundDiv(x3, 6) + RoundDiv(x4, 24)

(***************************************************************************)
(* AIPlayer                                                                *)
(***************************************************************************)
AI_MAX_SPEED == 7000

AI_ACCELERATION == 25000

AI_KICK_POWER == 15000

AI_KICK_RANGE == 1000

AI_ROTATION_SPEED == 8000

AI_KICK_COOLDOWN == 1500

\* the members of an AIPlayer as AIPlayer() = default leaves them
NewAIPlayer ==
    [position |-> Zero3, velocity |-> Zero3, homePosition |-> Zero3,
     rotation |-> 0, targetRotation |-> 0, state |-> "Idle", team |-> 0,
     kickCooldown |-> 0, animTime |-> 0, isClosestChaser |-> FALSE,
     isGoalkeeper |-> FALSE, isDefender |-> FALSE, targetPos |-> Zero3,
     currentTargetSpeed |-> AI_MAX_SPEED]

\* the mutant of SetHomePosition: a home at |x| = 40 is a goalkeeper's
SetHomePositionInclusive(ai, pos) ==
    [ai EXCEPT !.homePosition = pos,
               !.position = pos,
               !.isGoalkeeper = Abs(pos.x) >= 40000,
               !.isDefender = Abs(pos.x) > 30000 /\ ~(Abs(pos.x) >= 40000)]

\* AIPlayer::setHomePosition
SetHomePosition(ai, pos) ==
    [ai EXCEPT !.homePosition = pos,
               !.position = pos,
               !.isGoalkeeper = Abs(pos.x) > 40000,
               !.isDefender = Abs(pos.x) > 30000 /\ ~(Abs(pos.x) > 40000)]

\* AIPlayer::setTeam
SetTeam(ai, team) == [ai EXCEPT !.team = team]

\* AIPlayer::distanceToBall
DistanceToBall(ai, ballPos) ==
    Length(Vec3(ballPos.x - ai.position.x, 0, ballPos.z - ai.position.z))

\* AIPlayer::chaseBall
ChaseBall(ai, ballPos, ballVel) ==
    LET predictedBall == VAdd(ballPos, VScale(ballVel, 200))
    IN [ai EXCEPT !.targetPos = [predictedBall EXCEPT !.y = 0],
                  !.currentTargetSpeed = AI_MAX_SPEED]

\* AIPlayer::returnToPosition
ReturnToPosition(ai, ballPos, fieldLength, goalWidth) ==
    LET shiftAmount == Mul(ballPos.x, 200)
        shiftedHome ==
            IF ai.isGoalkeeper
            THEN [ai.homePosition EXCEPT !.z =
                     Clamp(Mul(ballPos.z, 500),
                           Div(-goalWidth, 2000) + 1000,
                           Div(goalWidth, 2000) - 1000)]
            ELSE IF ai.isDefender
            THEN [ai.homePosition EXCEPT !.x = @ + Mul(shiftAmount, 300)]
            ELSE [ai.homePosition EXCEPT !.x = @ + Mul(shiftAmount, 500)]
    IN [ai EXCEPT !.targetPos = shiftedHome,
                  !.currentTargetSpeed = Mul(AI_MAX_SPEED, 500)]

\* the mutant of DecideAction: every outfield agent on the ball's side of
\* the threshold chases, the designated chaser or not
DecideActionEveryone(ai, ballPos, ballVel, fieldLength) ==
    LET dist == DistanceToBall(ai, ballPos)
        ballX == ballPos.x
        goalX == IF ai.team = 0 THEN Div(-fieldLength, 2000)
                                ELSE Div(fieldLength, 2000)
        shouldChase ==
            IF ai.isGoalkeeper
            THEN Abs(ballX - goalX) < 20000 /\ dist < 15000
            ELSE IF ai.team = 0 THEN ballX < 40000 ELSE ballX > -40000
    IN IF shouldChase /\ dist < 35000
       THEN ChaseBall([ai EXCEPT !.state = "ChaseBall"], ballPos, ballVel)
       ELSE ReturnToPosition([ai EXCEPT !.state = "ReturnToPosition"],
                             ballPos, fieldLength, 7320)

\* the mutant of DecideAction: the ball is chased from any distance
DecideActionAnyRange(ai, ballPos, ballVel, fieldLength) ==
    LET dist == DistanceToBall(ai, ballPos)
        ballX == ballPos.x
        goalX == IF ai.team = 0 THEN Div(-fieldLength, 2000)
                                ELSE Div(fieldLength, 2000)
        shouldChase ==
            IF ai.isGoalkeeper
            THEN Abs(ballX - goalX) < 20000 /\ dist < 15000
            ELSE IF ai.isClosestChaser
            THEN IF ai.team = 0 THEN ballX < 40000 ELSE ballX > -40000
            ELSE FALSE
    IN IF shouldChase
       THEN ChaseBall([ai EXCEPT !.state = "ChaseBall"], ballPos, ballVel)
       ELSE ReturnToPosition([ai EXCEPT !.state = "ReturnToPosition"],
                             ballPos, fieldLength, 7320)

\* AIPlayer::decideAction
DecideAction(ai, ballPos, ballVel, fieldLength) ==
    LET dist == DistanceToBall(ai, ballPos)
        ballX == ballPos.x
        goalX == IF ai.team = 0 THEN Div(-fieldLength, 2000)
                                ELSE Div(fieldLength, 2000)
        shouldChase ==
            IF ai.isGoalkeeper
            THEN Abs(ballX - goalX) < 20000 /\ dist < 15000
            ELSE IF ai.isClosestChaser
            THEN IF ai.team = 0 THEN ballX < 40000 ELSE ballX > -40000
            ELSE FALSE
    IN IF shouldChase /\ dist < 35000
       THEN ChaseBall([ai EXCEPT !.state = "ChaseBall"], ballPos, ballVel)
       ELSE ReturnToPosition([ai EXCEPT !.state = "ReturnToPosition"],
                             ballPos, fieldLength, 7320)

\* m_position += m_velocity * deltaTime
Advance(ai, deltaTime) ==
    [ai EXCEPT !.position = VAdd(@, VScale(ai.velocity, deltaTime))]

\* the mutant of MoveToward: an agent that has arrived keeps its velocity
MoveTowardNoArrival(ai, target, targetSpeed, deltaTime) ==
    LET toTarget == Vec3(target.x - ai.position.x, 0, target.z - ai.position.z)
        distToTarget == Length(toTarget)
        a1 == IF distToTarget > 500
              THEN LET moveDir == VDiv(toTarget, distToTarget)
                       targetVel ==
                           VScale(moveDir, Min(Mul(distToTarget, 2000), targetSpeed))
                       velDiff == VSub(targetVel, ai.velocity)
                       velDiffLen == Length(velDiff)
                       accelAmount == Mul(AI_ACCELERATION, deltaTime)
                   IN [ai EXCEPT
                         !.velocity =
                             IF velDiffLen < accelAmount
                             THEN targetVel
                             ELSE VAdd(@, VScale(VDiv(velDiff, velDiffLen),
                                                 accelAmount)),
                         !.targetRotation = Atan2(-moveDir.x, -moveDir.z)]
              ELSE ai
    IN Advance(a1, deltaTime)

\* AIPlayer::moveToward
MoveToward(ai, target, targetSpeed, deltaTime) ==
    LET toTarget == Vec3(target.x - ai.position.x, 0, target.z - ai.position.z)
        distToTarget == Length(toTarget)
        a1 == IF distToTarget > 500
              THEN LET moveDir == VDiv(toTarget, distToTarget)
                       targetVel ==
                           VScale(moveDir, Min(Mul(distToTarget, 2000), targetSpeed))
                       velDiff == VSub(targetVel, ai.velocity)
                       velDiffLen == Length(velDiff)
                       accelAmount == Mul(AI_ACCELERATION, deltaTime)
                   IN [ai EXCEPT
                         !.velocity =
                             IF velDiffLen < accelAmount
                             THEN targetVel
                             ELSE VAdd(@, VScale(VDiv(velDiff, velDiffLen),
                                                 accelAmount)),
                         !.targetRotation = Atan2(-moveDir.x, -moveDir.z)]
              ELSE LET speed == Length(ai.velocity)
                   IN [ai EXCEPT !.velocity =
                            IF speed > 100 THEN VScale(@, 900) ELSE Zero3]
    IN Advance(a1, deltaTime)

\* AIPlayer::tryKick, r being the value of std::rand() % 100: the agent and
\* the ball it leaves, and that it kicked
TryKick(ai, b, fieldLength, r) ==
    LET goalX == IF ai.team = 0 THEN Div(fieldLength, 2000)
                                ELSE Div(-fieldLength, 2000)
        toGoal == Vec3(goalX - ai.position.x, 0, 0 - ai.position.z)
        aimed == Normalize(toGoal)
        spread == [aimed EXCEPT !.z = @ + Mul(Div((r - 50) * SCALE, 100 * SCALE), 300)]
        goalDir == Normalize(spread)
    IN [ai |-> [ai EXCEPT !.kickCooldown = AI_KICK_COOLDOWN],
        ball |-> [b EXCEPT !.velocity =
                     [VScale(goalDir, AI_KICK_POWER) EXCEPT !.y = 1000]],
        kicked |-> TRUE]

\* the angle difference brought into [-3.14159, 3.14159] by the two loops of
\* AIPlayer::update
RECURSIVE WrapDiff(_)
WrapDiff(rotDiff) ==
    IF rotDiff > 3142 THEN WrapDiff(rotDiff - 6283)
    ELSE IF rotDiff < -3142 THEN WrapDiff(rotDiff + 6283)
    ELSE rotDiff

\* AIPlayer::update, the kick cooldown
TickCooldown(ai, deltaTime) ==
    IF ai.kickCooldown > 0
    THEN [ai EXCEPT !.kickCooldown = @ - deltaTime] ELSE ai

\* AIPlayer::update, the move toward the target decideAction chose
Pursue(ai, deltaTime) ==
    MoveToward(ai, ai.targetPos, ai.currentTargetSpeed, deltaTime)

\* the mutant of KickInRange: the cooldown does not hold the kick back
KickInRangeNoCooldown(ai, b, fieldLength, r) ==
    IF /\ DistanceToBall(ai, b.position) < AI_KICK_RANGE
       /\ IsLow(b)
    THEN TryKick(ai, b, fieldLength, r)
    ELSE [ai |-> ai, ball |-> b, kicked |-> FALSE]

\* AIPlayer::update, the kick: the agent and the ball it leaves, and
\* whether it kicked
KickInRange(ai, b, fieldLength, r) ==
    IF /\ DistanceToBall(ai, b.position) < AI_KICK_RANGE
       /\ ai.kickCooldown <= 0
       /\ IsLow(b)
    THEN TryKick(ai, b, fieldLength, r)
    ELSE [ai |-> ai, ball |-> b, kicked |-> FALSE]

\* AIPlayer::update, the animation time
Animate(ai, deltaTime) ==
    LET speed == Length(ai.velocity)
    IN IF speed > 500
       THEN [ai EXCEPT !.animTime = @ + Mul(Mul(deltaTime, speed), 800)]
       ELSE ai

\* AIPlayer::update, the clamp of the position to the field
ClampToField(ai, fieldLength, fieldWidth) ==
    [ai EXCEPT
       !.position.x = Clamp(@, Div(-fieldLength, 2000) + 1000,
                            Div(fieldLength, 2000) - 1000),
       !.position.z = Clamp(@, Div(-fieldWidth, 2000) + 1000,
                            Div(fieldWidth, 2000) - 1000)]

\* AIPlayer::update, the turn toward m_targetRotation
Turn(ai, deltaTime) ==
    [ai EXCEPT !.rotation =
        @ + Mul(WrapDiff(ai.targetRotation - @),
                SCALE - ExpNeg(Mul(AI_ROTATION_SPEED, deltaTime)))]

\* AIPlayer::update, what follows the kick
Settle(k, deltaTime, fieldLength, fieldWidth) ==
    [ai |-> Turn(ClampToField(Animate(k.ai, deltaTime), fieldLength, fieldWidth),
                 deltaTime),
     ball |-> k.ball,
     kicked |-> k.kicked]

\* AIPlayer::update: the agent and the ball it leaves, and whether it kicked
AIPlayerUpdate(ai, b, deltaTime, fieldLength, fieldWidth, r) ==
    Settle(KickInRange(Pursue(DecideAction(TickCooldown(ai, deltaTime),
                                           b.position, b.velocity, fieldLength),
                              deltaTime),
                       b, fieldLength, r),
           deltaTime, fieldLength, fieldWidth)

\* no component of v reaches d, as when glm::length(v) < d; the collision
\* tests take the length of such vectors only
Within(v, d) == Abs(v.x) < d /\ Abs(v.y) < d /\ Abs(v.z) < d

\* AIPlayer::handleBallCollision: the ball it leaves
HandleBallCollision(ai, b) ==
    LET toBall == Vec3(b.position.x - ai.position.x, 0,
                       b.position.z - ai.position.z)
        dist == DistanceToBall(ai, b.position)
    IN IF Within(toBall, 500) /\ dist < 500 /\ dist > 10
       THEN LET pushDir == Normalize(toBall)
            IN [b EXCEPT !.position.x = ai.position.x + Mul(pushDir.x, 500),
                         !.position.z = ai.position.z + Mul(pushDir.z, 500)]
       ELSE b

\* AIPlayer::handlePlayerCollision: the agent it leaves
HandlePlayerCollision(ai, playerPos) ==
    LET toPlayer == Vec3(playerPos.x - ai.position.x, 0,
                         playerPos.z - ai.position.z)
        dist == Length(toPlayer)
    IN IF Within(toPlayer, 800) /\ dist < 800 /\ dist > 10
       THEN [ai EXCEPT !.position =
                VSub(@, VScale(Normalize(toPlayer), 800 - dist))]
       ELSE ai

\* AIPlayer::handleAICollision: the two agents it leaves
HandleAICollision(ai, other) ==
    LET toOther == Vec3(other.position.x - ai.position.x, 0,
                        other.position.z - ai.position.z)
        dist == Length(toOther)
    IN IF Within(toOther, 700) /\ dist < 700 /\ dist > 10
       THEN LET push == VScale(VScale(Normalize(toOther), 700 - dist), 500)
            IN [ai |-> [ai EXCEPT !.position = VSub(@, push)],
                other |-> [other EXCEPT !.position = VAdd(@, push)]]
       ELSE [ai |-> ai, other |-> other]

(***************************************************************************)
(* AIManager                                                               *)
(***************************************************************************)
\* one agent of AIManager::createTeams
Spawn(home, team) == SetTeam(SetHomePosition(NewAIPlayer, home), team)

\* the mutant of CreateTeams: the goalkeeper of team 1 is pushed after its
\* outfield agents
CreateTeamsKeeperLast ==
    [i \in 0..10 |->
        CASE i = 0 -> Spawn(Vec3(-45000, 0, 0), 0)
          [] i \in {1, 2} -> Spawn(Vec3(-35000, 0, -12000 + (i - 1) * 24000), 0)
          [] i \in {3, 4} -> Spawn(Vec3(-15000, 0, -15000 + (i - 3) * 30000), 0)
          [] i = 5 -> Spawn(Vec3(-5000, 0, 0), 0)
          [] i \in {6, 7} -> Spawn(Vec3(35000, 0, -12000 + (i - 6) * 24000), 1)
          [] i \in {8, 9} -> Spawn(Vec3(15000, 0, -15000 + (i - 8) * 30000), 1)
          [] OTHER -> Spawn(Vec3(45000, 0, 0), 1)]

\* AIManager::createTeams: m_players, indexed as the vector is
CreateTeams ==
    [i \in 0..10 |->
        CASE i = 0 -> Spawn(Vec3(-45000, 0, 0), 0)
          [] i \in {1, 2} -> Spawn(Vec3(-35000, 0, -12000 + (i - 1) * 24000), 0)
          [] i \in {3, 4} -> Spawn(Vec3(-15000, 0, -15000 + (i - 3) * 30000), 0)
          [] i = 5 -> Spawn(Vec3(-5000, 0, 0), 0)
          [] i = 6 -> Spawn(Vec3(45000, 0, 0), 1)
          [] i \in {7, 8} -> Spawn(Vec3(35000, 0, -12000 + (i - 7) * 24000), 1)
          [] OTHER -> Spawn(Vec3(15000, 0, -15000 + (i - 9) * 30000), 1)]

\* m_players.size() - 1
LastIndex(ps) == Cardinality(DOMAIN ps) - 1

\* the mutant of Closer: a later agent at the same distance takes over
CloserOrEqual(dist, closestDist) == dist <= closestDist

\* the comparison of findClosestChasers
Closer(dist, closestDist) == dist < closestDist

\* the first loop of findClosestChasers, from index i on
RECURSIVE ClosestScan(_, _, _, _)
ClosestScan(ps, ballPos, i, acc) ==
    IF i > LastIndex(ps) THEN acc
    ELSE LET dist == DistanceToBall(ps[i], ballPos)
             isGoalkeeper == (i = 0) \/ (i = 6)
             next ==
                 IF ps[i].team = 0 /\ ~isGoalkeeper
                 THEN IF Closer(dist, acc.closestRedDist)
                      THEN [acc EXCEPT !.closestRedDist = dist, !.closestRedIdx = i]
                      ELSE acc
                 ELSE IF ps[i].team = 1 /\ ~isGoalkeeper
                 THEN IF Closer(dist, acc.closestBlueDist)
                      THEN [acc EXCEPT !.closestBlueDist = dist, !.closestBlueIdx = i]
                      ELSE acc
                 ELSE acc
         IN ClosestScan(ps, ballPos, i + 1, next)

\* AIManager::findClosestChasers
FindClosestChasers(ps, ballPos) ==
    LET found == ClosestScan(ps, ballPos, 0,
                             [closestRedIdx |-> -1, closestBlueIdx |-> -1,
                              closestRedDist |-> 999000,
                              closestBlueDist |-> 999000])
    IN [i \in DOMAIN ps |->
           [ps[i] EXCEPT !.isClosestChaser =
               (i = found.closestRedIdx) \/ (i = found.closestBlueIdx)]]

\* m_players, the ball and the number of kicks so far, after agent i was
\* updated with the outcome r
Absorb(st, i, r) ==
    [players |-> [st.players EXCEPT ![i] = r.ai],
     ball |-> r.ball,
     nKicks |-> IF r.kicked THEN st.nKicks + 1 ELSE st.nKicks,
     shots |-> IF r.kicked THEN st.shots \cup {i} ELSE st.shots]

\* the loop over m_players of AIManager::update, from index i on; rs holds
\* the values std::rand() % 100 returns, taken in turn by the kicks
RECURSIVE UpdateLoop(_, _, _, _)
UpdateLoop(st, deltaTime, rs, i) ==
    IF i > LastIndex(st.players) THEN st
    ELSE UpdateLoop(Absorb(st, i,
                           AIPlayerUpdate(st.players[i], st.ball, deltaTime,
                                          FIELD_LENGTH, FIELD_WIDTH,
                                          rs[(st.nKicks % Len(rs)) + 1])),
                    deltaTime, rs, i + 1)

\* the first loop of handleCollisions, from index i on; st is m_players
\* and the ball so far
RECURSIVE BodyLoop(_, _, _)
BodyLoop(st, playerPos, i) ==
    IF i > LastIndex(st.players) THEN st
    ELSE BodyLoop([players |-> [st.players EXCEPT ![i] =
                                   HandlePlayerCollision(st.players[i], playerPos)],
                   ball |-> HandleBallCollision(st.players[i], st.ball)],
                  playerPos, i + 1)

\* m_players after the collision of the agents i and j had the outcome r
Separate(ps, i, j, r) == [ps EXCEPT ![i] = r.ai, ![j] = r.other]

\* the pair loops of handleCollisions, from the pair (i, j) on
RECURSIVE PairLoop(_, _, _)
PairLoop(ps, i, j) ==
    IF i > LastIndex(ps) THEN ps
    ELSE IF j > LastIndex(ps) THEN PairLoop(ps, i + 1, i + 2)
    ELSE PairLoop(Separate(ps, i, j, HandleAICollision(ps[i], ps[j])), i, j + 1)

\* the second part of handleCollisions, st being what the first left
HandlePairs(st) == [players |-> PairLoop(st.players, 0, 1), ball |-> st.ball]

\* AIManager::handleCollisions
HandleCollisions(ps, b, playerPos) ==
    HandlePairs(BodyLoop([players |-> ps, ball |-> b], playerPos, 0))

\* the last call of AIManager::update
Collide(st, playerPos) ==
    [players |-> HandleCollisions(st.players, st.ball, playerPos).players,
     ball |-> HandleCollisions(st.players, st.ball, playerPos).ball,
     shots |-> st.shots]

\* AIManager::update: m_players and the ball it leaves
AIManagerUpdate(ps, b, deltaTime, playerPos, rs) ==
    Collide(UpdateLoop([players |-> FindClosestChasers(ps, b.position),
                        ball |-> b, nKicks |-> 0, shots |-> {}],
                       deltaTime, rs, 0),
            playerPos)

(***************************************************************************)
(* std::sin and std::cos                                                   *)
(***************************************************************************)
\* sin(x) for -pi/2 <= x <= pi/2: the Taylor series to the seventh order
SinUnit(x) ==
    x - RoundDiv(Mul(Mul(x, x), x), 6)
      + RoundDiv(Mul(Mul(Mul(Mul(x, x), x), x), x), 120)
      - RoundDiv(Mul(Mul(Mul(Mul(Mul(Mul(x, x), x), x), x), x), x), 5040)

\* std::sin(x)
Sin(x) ==
    IF WrapDiff(x) > 1571 THEN SinUnit(3142 - WrapDiff(x))
    ELSE IF WrapDiff(x) < -1571 THEN SinUnit(-3142 - WrapDiff(x))
    ELSE SinUnit(WrapDiff(x))

\* std::cos(x)
Cos(x) == Sin(x + 1571)

\* glm::dot
Dot(u, v) == Mul(u.x, v.x) + Mul(u.y, v.y) + Mul(u.z, v.z)

(***************************************************************************)
(* Player                                                                  *)
(***************************************************************************)
PLAYER_MAX_SPEED == 8000

PLAYER_SPRINT_SPEED == 12000

PLAYER_ACCELERATION == 40000

PLAYER_DECELERATION == 30000

PLAYER_ROTATION_SPEED == 6000

PLAYER_RADIUS == 300

PLAYER_KICK_RANGE == 1500

PLAYER_DRIBBLE_RANGE == 1200

\* the members of a Player as Player() = default leaves them, and the
\* function-local static touchTimer of Player::dribble
NewPlayer ==
    [position |-> Vec3(0, 0, 5000), velocity |-> Zero3, rotation |-> 0,
     targetRotation |-> 0, inputDirection |-> Zero3, isSprinting |-> FALSE,
     animationTime |-> 0, kickAnimationTimer |-> 0, isKicking |-> FALSE,
     touchTimer |-> 0]

\* Player::getSpeed
GetSpeed(p) == Length(p.velocity)

\* Player::setMovementInput
SetMovementInput(p, direction, sprinting) ==
    [p EXCEPT !.inputDirection = direction, !.isSprinting = sprinting]

\* Player::setTargetRotation
SetTargetRotation(p, rotation) == [p EXCEPT !.targetRotation = rotation]

\* Ball::kick
Kick(b, direction, power, spinY, spinX) ==
    [b EXCEPT !.velocity = VScale(Normalize(direction), power),
              !.angularVelocity = Vec3(spinX, spinY, 0)]

\* the mutant of PlayerTryKick: the kick reaches a ball at any distance
PlayerTryKickAnywhere(p, b, sprinting, spinY) ==
    [player |-> [p EXCEPT !.isKicking = TRUE, !.kickAnimationTimer = 300],
     ball |-> Kick(b, Normalize(Vec3(-Sin(p.rotation), 300, -Cos(p.rotation))),
                   IF sprinting THEN 22000 ELSE 15000,
                   spinY,
                   IF sprinting THEN -5000 ELSE 0),
     ret |-> TRUE]

\* Player::tryKick: the controller and the ball it leaves, and what it
\* returns
PlayerTryKick(p, b, sprinting, spinY) ==
    IF Length(VSub(b.position, p.position)) >= PLAYER_KICK_RANGE
    THEN [player |-> p, ball |-> b, ret |-> FALSE]
    ELSE [player |-> [p EXCEPT !.isKicking = TRUE, !.kickAnimationTimer = 300],
          ball |-> Kick(b, Normalize(Vec3(-Sin(p.rotation), 300, -Cos(p.rotation))),
                        IF sprinting THEN 22000 ELSE 15000,
                        spinY,
                        IF sprinting THEN -5000 ELSE 0),
          ret |-> TRUE]

\* the vector from the controller to the ball, with toBall.y = 0
ToBall(p, b) ==
    Vec3(b.position.x - p.position.x, 0, b.position.z - p.position.z)

\* Vec3(-sin(m_rotation), 0, -cos(m_rotation))
PlayerForward(p) == Vec3(-Sin(p.rotation), 0, -Cos(p.rotation))

\* Player::dribble, the pull of the ball toward the ideal position
DribblePull(b, toIdeal, speed) ==
    [b EXCEPT !.velocity.x = @ + Mul(Mul(toIdeal.x, 150), speed),
              !.velocity.z = @ + Mul(Mul(toIdeal.z, 150), speed)]

\* Player::dribble, the random touch; r is the value of std::rand() % 100
DribbleTouch(st, deltaTime, r) ==
    IF st.player.touchTimer + deltaTime > 150
    THEN [player |-> [st.player EXCEPT !.touchTimer = 0],
          ball |-> [st.ball EXCEPT !.velocity =
                       VAdd(@, VScale(VScale(VScale(PlayerForward(st.player),
                                                    GetSpeed(st.player)),
                                             500 + Div(r * SCALE, 200 * SCALE)),
                                      300))]]
    ELSE [player |-> [st.player EXCEPT !.touchTimer = @ + deltaTime],
          ball |-> st.ball]

\* the factor that brings ballSpeed down to the limit, or 1
LimitFactor(ballSpeed, limit) ==
    IF ballSpeed > limit THEN Div(limit, ballSpeed) ELSE SCALE

\* Player::dribble, the limit of the ball speed
DribbleLimit(st) ==
    [player |-> st.player,
     ball |-> [st.ball EXCEPT
                 !.velocity.x =
                     Mul(@, LimitFactor(Length(Vec3(st.ball.velocity.x, 0,
                                                    st.ball.velocity.z)),
                                        Mul(GetSpeed(st.player), 1500))),
                 !.velocity.z =
                     Mul(@, LimitFactor(Length(Vec3(st.ball.velocity.x, 0,
                                                    st.ball.velocity.z)),
                                        Mul(GetSpeed(st.player), 1500)))]]

\* the ball is roughly in front: dot(normalize(toBall), playerForward) >
\* -0.3, which is false of the NaN a zero toBall gives
InFront(toBall, forward) ==
    /\ Length(toBall) > 0
    /\ Dot(Normalize(toBall), forward) > -300

\* Player::dribble: the controller and the ball it leaves
Dribble(p, b, deltaTime, r) ==
    IF InFront(ToBall(p, b), PlayerForward(p))
    THEN DribbleLimit(DribbleTouch(
             [player |-> p,
              ball |-> DribblePull(b,
                          VSub(VAdd(p.position, VScale(PlayerForward(p), 800)),
                               b.position),
                          GetSpeed(p))],
             deltaTime, r))
    ELSE [player |-> p, ball |-> b]

\* Player::handleBallCollision, the dribble
DribbleIfClose(p, b, deltaTime, r) ==
    IF /\ Length(ToBall(p, b)) < PLAYER_DRIBBLE_RANGE
       /\ GetSpeed(p) > 500
       /\ b.position.y <= BALL_RADIUS + 100
    THEN Dribble(p, b, deltaTime, r)
    ELSE [player |-> p, ball |-> b]

\* the momentum the hard collision transfers along pushDir
Transfer(b, pushDir, speed) ==
    IF speed > 500
    THEN [b EXCEPT !.velocity.x = @ + Mul(Mul(pushDir.x, speed), 300),
                   !.velocity.z = @ + Mul(Mul(pushDir.z, speed), 300)]
    ELSE b

\* the ball at minDist from the controller along pushDir
PushOut(p, b, pushDir, minDist) ==
    [b EXCEPT !.position.x = p.position.x + Mul(pushDir.x, minDist),
              !.position.z = p.position.z + Mul(pushDir.z, minDist)]

\* the mutant of HardCollision: the ball is pushed to the controller's
\* radius only
HardCollisionShort(p, b, toBall, distToBall) ==
    IF distToBall < PLAYER_RADIUS + BALL_RADIUS /\ distToBall > 10
    THEN Transfer(PushOut(p, b, Normalize(toBall), PLAYER_RADIUS),
                  Normalize(toBall), GetSpeed(p))
    ELSE b

\* Player::handleBallCollision, the hard collision
HardCollision(p, b, toBall, distToBall) ==
    IF distToBall < PLAYER_RADIUS + BALL_RADIUS /\ distToBall > 10
    THEN Transfer(PushOut(p, b, Normalize(toBall),
                          PLAYER_RADIUS + BALL_RADIUS),
                  Normalize(toBall), GetSpeed(p))
    ELSE b

\* Player::handleBallCollision, what follows the dribble
HardSeparation(st) ==
    [player |-> st.player,
     ball |-> HardCollision(st.player, st.ball, ToBall(st.player, st.ball),
                            Length(ToBall(st.player, st.ball)))]

\* Player::handleBallCollision: the controller and the ball it leaves
PlayerHandleBallCollision(p, b, deltaTime, r) ==
    HardSeparation(DribbleIfClose(p, b, deltaTime, r))

\* m_velocity moved toward targetVelocity by accelAmount
Accelerate(p, targetVelocity, velocityDiff, accelAmount) ==
    IF Length(velocityDiff) < accelAmount
    THEN [p EXCEPT !.velocity = targetVelocity]
    ELSE [p EXCEPT !.velocity =
             VAdd(@, VScale(Normalize(velocityDiff), accelAmount))]

\* Player::updateMovement, the deceleration when there is no input
Decelerate(p, speed, decelAmount) ==
    IF speed > 10
    THEN IF speed < decelAmount
         THEN [p EXCEPT !.velocity = Zero3]
         ELSE [p EXCEPT !.velocity =
                  VSub(@, VScale(VDiv(p.velocity, speed), decelAmount))]
    ELSE p

\* the target velocity of Player::updateMovement
TargetVelocity(p) ==
    VScale(Normalize(p.inputDirection),
           IF p.isSprinting THEN PLAYER_SPRINT_SPEED ELSE PLAYER_MAX_SPEED)

\* Player::updateMovement, the change of m_velocity
Steer(p, deltaTime) ==
    IF Length(p.inputDirection) > 10
    THEN Accelerate(p, TargetVelocity(p), VSub(TargetVelocity(p), p.velocity),
                    Mul(PLAYER_ACCELERATION, deltaTime))
    ELSE Decelerate(p, GetSpeed(p), Mul(PLAYER_DECELERATION, deltaTime))

\* Player::updateMovement
UpdateMovement(p, deltaTime) == Advance(Steer(p, deltaTime), deltaTime)

\* the mutant of UpdateRotation: the difference is not wrapped, so the turn
\* can go the long way round
UpdateRotationLongWay(p, deltaTime) ==
    [p EXCEPT !.rotation =
        WrapDiff(@ + Mul(p.targetRotation - @,
                         SCALE - ExpNeg(Mul(PLAYER_ROTATION_SPEED, deltaTime))))]

\* the body of Player::updateRotation on the angle rotation, with the
\* target and the turn rate given: the difference wrapped, the fraction
\* 1 - exp(-rate * deltaTime) of it added, the sum wrapped
RotationStep(rotation, target, rate, deltaTime) ==
    WrapDiff(rotation + Mul(WrapDiff(target - rotation),
                            SCALE - ExpNeg(Mul(rate, deltaTime))))

\* Player::updateRotation
UpdateRotation(p, deltaTime) ==
    [p EXCEPT !.rotation =
        RotationStep(p.rotation, p.targetRotation, PLAYER_ROTATION_SPEED,
                     deltaTime)]

\* Player::updateAnimation, the kick animation timer
KickTimer(p, deltaTime) ==
    IF p.kickAnimationTimer > 0
    THEN [p EXCEPT !.kickAnimationTimer = @ - deltaTime,
                   !.isKicking = IF p.kickAnimationTimer - deltaTime <= 0
                                 THEN FALSE ELSE @]
    ELSE p

\* Player::updateAnimation, m_animationTime
StepAnimation(p, moveSpeed, deltaTime) ==
    IF moveSpeed > 500
    THEN [p EXCEPT !.animationTime = @ + Mul(Mul(deltaTime, moveSpeed), 800)]
    ELSE p

\* Player::updateAnimation
UpdateAnimation(p, deltaTime) ==
    KickTimer(StepAnimation(p, GetSpeed(p), deltaTime), deltaTime)

\* the mutant of ClampToBounds: only z is clamped
ClampToBoundsZOnly(p, boundsMin, boundsMax) ==
    [p EXCEPT !.position.z = Clamp(@, boundsMin.z, boundsMax.z)]

\* Player::clampToBounds
ClampToBounds(p, boundsMin, boundsMax) ==
    [p EXCEPT !.position.x = Clamp(@, boundsMin.x, boundsMax.x),
              !.position.z = Clamp(@, boundsMin.z, boundsMax.z)]

\* Player::update
PlayerUpdate(p, deltaTime, boundsMin, boundsMax) ==
    ClampToBounds(UpdateAnimation(UpdateRotation(UpdateMovement(p, deltaTime),
                                                 deltaTime),
                                  deltaTime),
                  boundsMin, boundsMax)

\* boundsMin of Application::update
BoundsMin == Vec3(Div(-FIELD_LENGTH, 2000) + 1000, 0, Div(-FIELD_WIDTH, 2000) + 1000)

\* boundsMax of Application::update
BoundsMax == Vec3(Div(FIELD_LENGTH, 2000) - 1000, 0, Div(FIELD_WIDTH, 2000) - 1000)

(***************************************************************************)
(* Application: one frame of the main loop                                 *)
(***************************************************************************)
\* Match::handleBoundaryCollision, the side boundaries
SideBoundary(b, vel, halfWidth, radius) ==
    IF b.position.z < -halfWidth + radius
    THEN [b EXCEPT !.position.z = -halfWidth + radius,
                   !.velocity.z = Mul(Abs(vel.z), 600)]
    ELSE IF b.position.z > halfWidth - radius
    THEN [b EXCEPT !.position.z = halfWidth - radius,
                   !.velocity.z = -Mul(Abs(vel.z), 600)]
    ELSE b

\* the mutant of EndBoundary: the ball is turned back at the line, not a
\* radius before it
EndBoundaryAtLine(b, pos, vel, halfLength, goalHalfWidth, radius) ==
    IF Abs(pos.z) < goalHalfWidth /\ pos.y < GOAL_HEIGHT
    THEN b
    ELSE IF pos.x < -halfLength
    THEN [b EXCEPT !.position.x = -halfLength,
                   !.velocity.x = Mul(Abs(vel.x), 600)]
    ELSE IF pos.x > halfLength
    THEN [b EXCEPT !.position.x = halfLength,
                   !.velocity.x = -Mul(Abs(vel.x), 600)]
    ELSE b

\* Match::handleBoundaryCollision, the end boundaries; pos and vel are the
\* copies taken on entry
EndBoundary(b, pos, vel, halfLength, goalHalfWidth, radius) ==
    IF Abs(pos.z) < goalHalfWidth /\ pos.y < GOAL_HEIGHT
    THEN b
    ELSE IF pos.x < -halfLength + radius
    THEN [b EXCEPT !.position.x = -halfLength + radius,
                   !.velocity.x = Mul(Abs(vel.x), 600)]
    ELSE IF pos.x > halfLength - radius
    THEN [b EXCEPT !.position.x = halfLength - radius,
                   !.velocity.x = -Mul(Abs(vel.x), 600)]
    ELSE b

\* Match::handleBoundaryCollision
HandleBoundaryCollision(b) ==
    EndBoundary(SideBoundary(b, b.velocity, Div(FIELD_WIDTH, 2000), BALL_RADIUS),
                b.position, b.velocity, Div(FIELD_LENGTH, 2000),
                Div(GOAL_WIDTH, 2000), BALL_RADIUS)

\* InputHandler::m_state and the two requests, with no key down
NoInput ==
    [movementDirection |-> Zero3, sprinting |-> FALSE, targetRotation |-> 0,
     kickJustPressed |-> FALSE, spinY |-> 0, resetBall |-> FALSE,
     toggleAI |-> FALSE]

\* what the next InputHandler::processEvents leaves of the input: the held
\* keys stay, the requests were cleared and the kick edge is over
Released(in) ==
    [in EXCEPT !.kickJustPressed = FALSE, !.resetBall = FALSE,
               !.toggleAI = FALSE]

\* Application::processInput, the reset request
RequestReset(g, in) ==
    IF in.resetBall THEN [g EXCEPT !.ball = Reset(g.ball)] ELSE g

\* Application::processInput, the AI toggle
RequestToggle(g, in) ==
    IF in.toggleAI THEN [g EXCEPT !.aiEnabled = ~g.aiEnabled] ELSE g

\* Application::processInput, the input passed to the controller
PassInput(g, in) ==
    [g EXCEPT !.player =
        SetTargetRotation(SetMovementInput(g.player, in.movementDirection,
                                           in.sprinting),
                          in.targetRotation)]

\* the game after Player::tryKick had the outcome r
Kicked(g, r) ==
    [g EXCEPT !.player = r.player, !.ball = r.ball, !.kicked = r.ret]

\* Application::processInput, the kick attempt
KickAttempt(g, in) ==
    IF in.kickJustPressed /\ ~g.match.goalScored
    THEN Kicked(g, PlayerTryKick(g.player, g.ball, in.sprinting, in.spinY))
    ELSE g

\* Application::processInput
ProcessInput(g, in) ==
    KickAttempt(PassInput(RequestToggle(RequestReset(g, in), in), in), in)

\* Application::update, m_player.update
MovePlayer(g, deltaTime) ==
    [g EXCEPT !.player = PlayerUpdate(g.player, deltaTime, BoundsMin, BoundsMax)]

\* Application::update, m_ball.update and m_match.handleBoundaryCollision
MoveBall(g, deltaTime) ==
    [g EXCEPT !.ball = HandleBoundaryCollision(Update(g.ball, deltaTime, Bounds))]

\* the game after Player::handleBallCollision had the outcome r
Touched(g, r) == [g EXCEPT !.player = r.player, !.ball = r.ball]

\* Application::update, the player-ball interaction
TouchBall(g, deltaTime, r) ==
    IF ~g.match.goalScored
    THEN Touched(g, PlayerHandleBallCollision(g.player, g.ball, deltaTime, r))
    ELSE g

\* the game after Match::update had the outcome r
Refereed(g, r) == [g EXCEPT !.match = r.match, !.ball = r.ball]

\* Application::update, m_match.update
Referee(g, deltaTime) == Refereed(g, MatchUpdateOp(g.match, g.ball, deltaTime))

\* the game after AIManager::update had the outcome r
Coordinated(g, r) ==
    [g EXCEPT !.players = r.players, !.ball = r.ball, !.shots = r.shots]

\* Application::update, the AI team update; ballAtAI is the ball the
\* coordinator was given and shots the agents whose update called tryKick
RunAI(g, deltaTime, rs) ==
    IF g.aiEnabled
    THEN Coordinated([g EXCEPT !.ballAtAI = g.ball],
                     AIManagerUpdate(g.players, g.ball, deltaTime,
                                     g.player.position, rs))
    ELSE [g EXCEPT !.ballAtAI = g.ball]

\* Application::update
ApplicationUpdate(g, deltaTime, r, rs) ==
    RunAI(Referee(TouchBall(MoveBall(MovePlayer(g, deltaTime), deltaTime),
                            deltaTime, r),
                  deltaTime),
          deltaTime, rs)

\* one iteration of the loop of Application::run: processInput, update
Frame(g, in, deltaTime, r, rs) ==
    ApplicationUpdate(ProcessInput(g, in), deltaTime, r, rs)

(***************************************************************************)
(* State                                                                   *)
(***************************************************************************)
VARIABLES
    ball,       \* Ball::m_state
    op,         \* the operation that produced this state
    pre,        \* m_state when that operation was called
    dtLast,     \* the deltaTime it was called with
    steps,      \* the number of Ball operations so far
    match,      \* the Match object
    matchPre,   \* the Match object when the last operation was called
    arg,        \* the ballPos the last checkGoal was given
    ret,        \* what the last checkGoal returned
    elapsed,    \* the deltaTime Match::update was given since the last goal
    players,    \* AIManager::m_players
    playersPre, \* m_players when the last AIManager::update was called
    human,      \* Player::m_position
    frames,     \* the number of AIManager::update calls so far
    player,     \* Application::m_player
    playerPre,  \* m_player when the last Player operation was called
    kicked,     \* what the last Player::tryKick returned
    sinceShot,  \* per agent, the deltaTime its updates were given since
                \* its last shot and between its last two shots, or -1
    aiEnabled,  \* Application::m_aiEnabled
    input       \* InputHandler::m_state and the pending requests

ballVars == <<ball, op, pre, dtLast, steps>>

matchVars == <<match, matchPre, arg, ret, elapsed>>

aiVars == <<players, playersPre, human, frames>>

\* an agent that has not shot yet
NoShot == [since |-> -1, gap |-> -1]

humanVars == <<player, playerPre, kicked, sinceShot>>

gameVars == <<aiEnabled, input>>

vars == <<ballVars, matchVars, aiVars, humanVars, gameVars>>

\* the roster and the human controller as Application::init leaves them
InitAI ==
    /\ players = CreateTeams
    /\ playersPre = CreateTeams
    /\ human = Vec3(0, 0, 5000)
    /\ frames = 0
    /\ player = NewPlayer
    /\ playerPre = NewPlayer
    /\ kicked = FALSE
    /\ sinceShot = [i \in DOMAIN CreateTeams |-> NoShot]
    /\ aiEnabled = TRUE
    /\ input = NoInput

\* an AIManager on which createTeams was not called: m_players is empty
InitNoAI ==
    /\ players = << >>
    /\ playersPre = << >>
    /\ human = Vec3(0, 0, 5000)
    /\ frames = 0
    /\ player = NewPlayer
    /\ playerPre = NewPlayer
    /\ kicked = FALSE
    /\ sinceShot = << >>
    /\ aiEnabled = TRUE
    /\ input = NoInput

\* the number of Ball operations of a run
MaxSteps == 2

\* the frame times: none, 60 Hz, either side of the 0.5 / GRAVITY
\* threshold, the cap of Application::run, and a full second
DtSet == {0, 16, 50, 52, 100, 1000}

\* the last position is a ball lying in the right goal mouth, over the line
\* by less than the radius checkGoal asks for
BallPositions ==
    { Vec3(0, 220, 0), Vec3(0, 500, 0), Vec3(0, 600, 0), Vec3(0, 3000, 0),
      Vec3(52400, 300, 0), Vec3(52400, 300, 10000), Vec3(0, 220, 34400),
      Vec3(52700, 220, -3500) }

\* the last velocity is what Player::tryKick gives the ball when the
\* controller faces 0.709 rad: 15 * normalize(-sin, 0.3, -cos)
BallVelocities ==
    { Zero3, Vec3(1000, 0, 0), Vec3(10000, 0, 0), Vec3(0, -6000, 0),
      Vec3(3000, 0, 3000), Vec3(0, 4000, 8000), Vec3(-9345, 4320, -10905) }

BallSpins == { Zero3, Vec3(0, 100, 0), Vec3(0, 8000, 0), Vec3(3000, 0, 0) }

BallInputs ==
    { BallState(p, v, w, 0) : p \in BallPositions, v \in BallVelocities,
                              w \in BallSpins }

InitBall ==
    /\ ball \in BallInputs
    /\ op = "init"
    /\ pre = ball
    /\ dtLast = 0
    /\ steps = 0
    /\ match = NewMatch
    /\ matchPre = NewMatch
    /\ arg = Zero3
    /\ ret = FALSE
    /\ elapsed = 0
    /\ InitNoAI

\* Ball::update
BallUpdate ==
    \E dt \in DtSet :
        /\ steps < MaxSteps
        /\ ball' = Update(ball, dt, Bounds)
        /\ op' = "update"
        /\ pre' = ball
        /\ dtLast' = dt
        /\ steps' = steps + 1
        /\ UNCHANGED <<matchVars, aiVars, humanVars, gameVars>>

\* Ball::reset
BallReset ==
    /\ steps < MaxSteps
    /\ ball' = Reset(ball)
    /\ op' = "reset"
    /\ pre' = ball
    /\ dtLast' = 0
    /\ steps' = steps + 1
    /\ UNCHANGED <<matchVars, aiVars, humanVars, gameVars>>

\* Match::handleBoundaryCollision(ball), which Application::update calls
\* after Ball::update
BallBounded ==
    /\ op = "update"
    /\ ball' = HandleBoundaryCollision(ball)
    /\ op' = "handleBoundaryCollision"
    /\ pre' = ball
    /\ UNCHANGED <<dtLast, steps, matchVars, aiVars, humanVars, gameVars>>

NextBall == BallUpdate \/ BallReset \/ BallBounded

SpecBall == InitBall /\ [][NextBall]_vars

(***************************************************************************)
(* The Match object, driven by Match::update and by direct calls of its    *)
(* public operations, with a ball that the rest of the frame moves         *)
(***************************************************************************)
\* the highest score a run counts to
MaxScore == 2

\* the frame times Match::update is given (Application::run caps them at 0.1)
MatchDtSet == {0, 40, 100}

\* ball positions on both sides of each threshold of checkGoal
GoalProbes ==
    { Vec3(0, 500, 0), Vec3(53500, 1000, 0), Vec3(-53500, 1000, 0),
      Vec3(52720, 1000, 0), Vec3(52721, 1000, 0), Vec3(-52721, 1000, 0),
      Vec3(52600, 1000, 0), Vec3(-52600, 1000, 0),
      Vec3(53500, 1000, 3660), Vec3(53500, 1000, -3659),
      Vec3(53500, 2440, 0), Vec3(-53500, 2439, 0), Vec3(53500, 0, 0) }

\* the ball in play, in either goal, and past the end line beside a goal
MatchBalls ==
    { BallState(Vec3(20000, 220, 5000), Vec3(8000, 0, 0), Zero3, 0),
      BallState(Vec3(53500, 1000, 0), Vec3(8000, 0, 0), Vec3(0, 3000, 0), 700),
      BallState(Vec3(-53000, 220, -2000), Vec3(-5000, 0, 0), Zero3, 0),
      BallState(Vec3(52600, 220, 0), Zero3, Zero3, 0) }

\* a further goal would not take a score past MaxScore
ScoreRoom(m) ==
    m.goalScored \/ (m.scoreLeft < MaxScore /\ m.scoreRight < MaxScore)

InitMatch ==
    /\ ball = Reset(BallState(Zero3, Zero3, Zero3, 0))
    /\ op = "init"
    /\ pre = ball
    /\ dtLast = 0
    /\ steps = 0
    /\ match = NewMatch
    /\ matchPre = NewMatch
    /\ arg = Zero3
    /\ ret = FALSE
    /\ elapsed = 0
    /\ InitNoAI

\* the ball as the rest of the frame leaves it (Ball::setPosition,
\* Ball::setVelocity, Ball::state)
BallPlaced ==
    \E b \in MatchBalls :
        /\ ball' = b
        /\ op' = "placed"
        /\ pre' = ball
        /\ matchPre' = match
        /\ arg' = Zero3
        /\ ret' = FALSE
        /\ dtLast' = 0
        /\ UNCHANGED <<steps, match, elapsed, aiVars, humanVars, gameVars>>

\* Match::update(deltaTime, ball)
MatchUpdateStep(dt) ==
    /\ ScoreRoom(match)
    /\ LET r == MatchUpdateOp(match, ball, dt)
       IN /\ match' = r.match
          /\ ball' = r.ball
          /\ elapsed' = IF match.goalScored THEN elapsed + dt ELSE 0
    /\ matchPre' = match
    /\ pre' = ball
    /\ op' = "matchUpdate"
    /\ dtLast' = dt
    /\ arg' = ball.position
    /\ ret' = FALSE
    /\ UNCHANGED <<steps, aiVars, humanVars, gameVars>>

MatchUpdate == \E dt \in MatchDtSet : MatchUpdateStep(dt)

\* Match::update with a deltaTime bounded away from zero
MatchUpdatePositive == \E dt \in MatchDtSet \ {0} : MatchUpdateStep(dt)

\* Match::checkGoal(ballPos)
MatchCheckGoal ==
    \E p \in GoalProbes :
        /\ ScoreRoom(match)
        /\ LET r == CheckGoal(match, p)
           IN /\ match' = r.match
              /\ ret' = r.ret
              /\ elapsed' = IF r.ret THEN 0 ELSE elapsed
        /\ arg' = p
        /\ matchPre' = match
        /\ pre' = ball
        /\ op' = "checkGoal"
        /\ dtLast' = 0
        /\ UNCHANGED <<ball, steps, aiVars, humanVars, gameVars>>

\* Match::resetAfterGoal(ball)
MatchResetAfterGoal ==
    /\ LET r == ResetAfterGoal(match, ball)
       IN match' = r.match /\ ball' = r.ball
    /\ matchPre' = match
    /\ pre' = ball
    /\ op' = "resetAfterGoal"
    /\ arg' = Zero3
    /\ ret' = FALSE
    /\ dtLast' = 0
    /\ elapsed' = 0
    /\ UNCHANGED <<steps, aiVars, humanVars, gameVars>>

\* Match::reset()
MatchReset ==
    /\ match' = NewMatch
    /\ matchPre' = match
    /\ pre' = ball
    /\ op' = "matchReset"
    /\ arg' = Zero3
    /\ ret' = FALSE
    /\ dtLast' = 0
    /\ elapsed' = 0
    /\ UNCHANGED <<ball, steps, aiVars, humanVars, gameVars>>

NextMatch ==
    \/ BallPlaced
    \/ MatchUpdate
    \/ MatchCheckGoal
    \/ MatchResetAfterGoal
    \/ MatchReset

SpecMatch == InitMatch /\ [][NextMatch]_vars

\* Application::run calls Match::update in every frame, with the time the
\* frame took
SpecMatchLive == SpecMatch /\ WF_vars(MatchUpdatePositive)

(***************************************************************************)
(* The two AI teams, driven by AIManager::update, with a ball and a human  *)
(* controller that the rest of the frame moves                             *)
(***************************************************************************)
\* the number of AIManager::update calls of a run
MaxFrames == 2

\* the frame times AIManager::update is given: 60 Hz, and the cap of
\* Application::run
AIDtSet == {16, 100}

\* the values std::rand() % 100 returns in a frame: both ends, either way
RandSet == { <<0, 99>>, <<99, 0>> }

\* the ball at the centre spot (as far from agent 9 as from agent 10), as
\* far from agent 1 as from agent 2, rolling within reach of agent 5,
\* overlapping agent 9, and in the air near the right goalkeeper
AIBalls ==
    { Reset(BallState(Zero3, Zero3, Zero3, 0)),
      BallState(Vec3(-35000, 220, 0), Zero3, Zero3, 0),
      BallState(Vec3(-4400, 220, 0), Vec3(2000, 0, 0), Zero3, 0),
      BallState(Vec3(15300, 220, -15000), Zero3, Zero3, 0),
      BallState(Vec3(42000, 2000, 3000), Vec3(5000, 1000, 0), Zero3, 0) }

\* the human controller where Player() leaves it, and just behind agent 5
HumanPositions == { Vec3(0, 0, 5000), Vec3(-5400, 0, 0) }

InitTeams ==
    /\ ball = Reset(BallState(Zero3, Zero3, Zero3, 0))
    /\ op = "init"
    /\ pre = ball
    /\ dtLast = 0
    /\ steps = 0
    /\ match = NewMatch
    /\ matchPre = NewMatch
    /\ arg = Zero3
    /\ ret = FALSE
    /\ elapsed = 0
    /\ InitAI

\* the ball as the rest of the frame leaves it (Ball::update,
\* Player::handleBallCollision, Match::update)
AIBallPlaced ==
    \E b \in AIBalls :
        /\ frames < MaxFrames
        /\ ball' = b
        /\ op' = "placed"
        /\ pre' = b
        /\ dtLast' = 0
        /\ UNCHANGED <<steps, matchVars, aiVars, humanVars, gameVars>>

\* the human controller as Player::update leaves it
HumanMoved ==
    \E h \in HumanPositions :
        /\ frames < MaxFrames
        /\ human' = h
        /\ op' = "placed"
        /\ pre' = ball
        /\ dtLast' = 0
        /\ UNCHANGED <<ball, steps, matchVars, players, playersPre, frames,
                       humanVars, gameVars>>

\* AIManager::update(deltaTime, ball, playerPos, ...)
AIUpdate ==
    \E dt \in AIDtSet, rs \in RandSet :
        /\ frames < MaxFrames
        /\ \E r \in { AIManagerUpdate(players, ball, dt, human, rs) } :
              players' = r.players /\ ball' = r.ball
        /\ playersPre' = players
        /\ pre' = ball
        /\ op' = "aiUpdate"
        /\ dtLast' = dt
        /\ frames' = frames + 1
        /\ UNCHANGED <<human, steps, matchVars, humanVars, gameVars>>

NextAI == AIBallPlaced \/ HumanMoved \/ AIUpdate

SpecAI == InitTeams /\ [][NextAI]_vars

(***************************************************************************)
(* One agent, driven by the calls AIManager makes on it, with a ball that  *)
(* the rest of the frame moves                                             *)
(***************************************************************************)
\* the number of AIPlayer::update calls of a run
MaxAgentSteps == 1

\* home positions: those of createTeams, and either side of the role
\* thresholds |x| = 30 and |x| = 40
HomeProbes ==
    { Vec3(x, 0, 0) : x \in {-45000, -40001, -40000, -30001, -30000, -5000,
                             30000, 30001, 40000, 40001} }

\* ball positions either side of the thresholds of decideAction: the
\* offensive limit |x| = 40, 20 from a goal line, 35 from an agent at
\* x = -5 and 15 from a goalkeeper at x = -45, and a ball at an agent's feet
BallProbes ==
    { Vec3(-40000, 220, 0), Vec3(-39999, 220, 0), Vec3(39999, 220, 0),
      Vec3(40000, 220, 0), Vec3(-32501, 220, 0), Vec3(-32500, 220, 0),
      Vec3(32500, 220, 0), Vec3(29999, 220, 0), Vec3(30000, 220, 0),
      Vec3(-45000, 220, 14999), Vec3(-45000, 220, 15000),
      Vec3(-4500, 220, 0), Vec3(-4500, 2000, 0) }

\* std::rand() % 100 of AIPlayer::tryKick
KickRands == {0, 99}

InitAgent ==
    /\ ball = Reset(BallState(Zero3, Zero3, Zero3, 0))
    /\ op = "init"
    /\ pre = ball
    /\ dtLast = 0
    /\ steps = 0
    /\ match = NewMatch
    /\ matchPre = NewMatch
    /\ arg = Zero3
    /\ ret = FALSE
    /\ elapsed = 0
    /\ players = [i \in {0} |-> Spawn(Vec3(-45000, 0, 0), 0)]
    /\ playersPre = players
    /\ human = Vec3(0, 0, 5000)
    /\ frames = 0
    /\ player = NewPlayer
    /\ playerPre = NewPlayer
    /\ kicked = FALSE
    /\ sinceShot = [i \in {0} |-> NoShot]
    /\ aiEnabled = TRUE
    /\ input = NoInput

\* AIPlayer(), setHomePosition and setTeam, as createTeams calls them
AgentSpawned ==
    \E home \in HomeProbes, team \in {0, 1} :
        /\ players' = [i \in {0} |-> Spawn(home, team)]
        /\ playersPre' = players'
        /\ pre' = ball
        /\ op' = "spawn"
        /\ dtLast' = 0
        /\ UNCHANGED <<ball, steps, matchVars, human, frames, humanVars, gameVars>>

\* setIsClosestChaser, as findClosestChasers calls it
AgentDesignated ==
    \E c \in BOOLEAN :
        /\ players' = [players EXCEPT ![0].isClosestChaser = c]
        /\ playersPre' = players'
        /\ pre' = ball
        /\ op' = "setIsClosestChaser"
        /\ dtLast' = 0
        /\ UNCHANGED <<ball, steps, matchVars, human, frames, humanVars, gameVars>>

\* the ball as the rest of the frame leaves it
AgentBallPlaced ==
    \E b \in BallProbes :
        /\ frames < MaxAgentSteps
        /\ ball' = BallState(b, Zero3, Zero3, 0)
        /\ pre' = ball'
        /\ playersPre' = players
        /\ op' = "placed"
        /\ dtLast' = 0
        /\ UNCHANGED <<steps, matchVars, players, human, frames, humanVars, gameVars>>

\* AIPlayer::update(deltaTime, ball, playerPos, fieldLength, fieldWidth, ...)
AgentUpdate ==
    \E dt \in AIDtSet, r \in KickRands :
        /\ frames < MaxAgentSteps
        /\ \E res \in { AIPlayerUpdate(players[0], ball, dt, FIELD_LENGTH,
                                       FIELD_WIDTH, r) } :
              players' = [players EXCEPT ![0] = res.ai] /\ ball' = res.ball
        /\ playersPre' = players
        /\ pre' = ball
        /\ op' = "agentUpdate"
        /\ dtLast' = dt
        /\ frames' = frames + 1
        /\ UNCHANGED <<steps, matchVars, human, humanVars, gameVars>>

NextAgent == AgentSpawned \/ AgentDesignated \/ AgentBallPlaced \/ AgentUpdate

SpecAgent == InitAgent /\ [][NextAgent]_vars

(***************************************************************************)
(* The human controller, driven by the calls Application makes on it, with *)
(* a ball that the rest of the frame moves                                 *)
(***************************************************************************)
\* the number of Player operations of a run
MaxPlayerSteps == 2

\* the frame times: 60 Hz and the cap of Application::run
PlayerDtSet == {16, 100}

\* InputState::movementDirection (normalised or zero) and sprinting
MoveInputs ==
    { [direction |-> Zero3, sprinting |-> FALSE],
      [direction |-> Vec3(0, 0, -1000), sprinting |-> FALSE],
      [direction |-> Vec3(0, 0, -1000), sprinting |-> TRUE],
      [direction |-> Vec3(707, 0, 707), sprinting |-> TRUE] }

\* -cameraYaw, as processInput passes it to setTargetRotation
TargetRotations == {0, 1571}

\* -cameraYaw after the camera was swung round: Camera::rotate keeps the
\* yaw within a turn either way of zero, and one large mouse movement takes
\* it beyond
TurnTargets == {3142, -3142, 4712, -4712, 6283, 9000}

\* the frame times of a turn: also a frame that took no time
TurnDtSet == {0, 16, 100}

\* InputState::spinY
SpinSet == {0, 10000, -10000}

\* std::rand() % 100
TouchRands == {0, 99}

\* where the ball is with respect to the controller's feet: on the same
\* vertical line (on the ground, and at the height Ball::reset gives), a
\* centimetre and less away, inside the combined radii, inside the dribble
\* range, either side of the kick range, and overhead
BallOffsets ==
    { Vec3(0, 220, 0), Vec3(0, 500, 0), Vec3(6, 220, -8), Vec3(300, 220, 0),
      Vec3(0, 220, -1000), Vec3(0, 220, -1400), Vec3(0, 220, -1500),
      Vec3(900, 220, 1300), Vec3(400, 1500, 0) }

\* the velocity the ball is placed with
PlacedVelocities == { Zero3, Vec3(2000, 0, -1000) }

InitPlayer ==
    /\ ball = Reset(BallState(Zero3, Zero3, Zero3, 0))
    /\ op = "init"
    /\ pre = ball
    /\ dtLast = 0
    /\ steps = 0
    /\ match = NewMatch
    /\ matchPre = NewMatch
    /\ arg = Zero3
    /\ ret = FALSE
    /\ elapsed = 0
    /\ InitNoAI

\* the ball as the rest of the frame leaves it (Ball::update, Ball::reset,
\* a kick of an agent)
PlayerBallPlaced ==
    \E o \in BallOffsets, v \in PlacedVelocities :
        /\ steps < MaxPlayerSteps
        /\ ball' = BallState(Vec3(player.position.x + o.x, o.y,
                                  player.position.z + o.z), v, Zero3, 0)
        /\ op' = "placed"
        /\ pre' = ball'
        /\ playerPre' = player
        /\ dtLast' = 0
        /\ UNCHANGED <<steps, matchVars, aiVars, player, kicked, sinceShot, gameVars>>

\* Application::processInput and Application::update on the controller:
\* setMovementInput, setTargetRotation, Player::update
PlayerUpdateOp ==
    \E in \in MoveInputs, rot \in TargetRotations, dt \in PlayerDtSet :
        /\ steps < MaxPlayerSteps
        /\ player' = PlayerUpdate(
                        SetTargetRotation(
                            SetMovementInput(player, in.direction, in.sprinting),
                            rot),
                        dt, BoundsMin, BoundsMax)
        /\ playerPre' = player
        /\ pre' = ball
        /\ op' = "playerUpdate"
        /\ dtLast' = dt
        /\ steps' = steps + 1
        /\ UNCHANGED <<ball, matchVars, aiVars, kicked, sinceShot, gameVars>>

\* Player::tryKick(ball, sprinting, spinY)
PlayerTryKickOp ==
    \E sprinting \in BOOLEAN, spinY \in SpinSet :
        /\ steps < MaxPlayerSteps
        /\ \E r \in { PlayerTryKick(player, ball, sprinting, spinY) } :
              player' = r.player /\ ball' = r.ball /\ kicked' = r.ret
        /\ playerPre' = player
        /\ pre' = ball
        /\ op' = "tryKick"
        /\ dtLast' = 0
        /\ steps' = steps + 1
        /\ UNCHANGED <<matchVars, aiVars, sinceShot, gameVars>>

\* Player::handleBallCollision(ball, deltaTime)
PlayerHandleBallCollisionOp ==
    \E dt \in PlayerDtSet, r \in TouchRands :
        /\ steps < MaxPlayerSteps
        /\ \E res \in { PlayerHandleBallCollision(player, ball, dt, r) } :
              player' = res.player /\ ball' = res.ball
        /\ playerPre' = player
        /\ pre' = ball
        /\ op' = "handleBallCollision"
        /\ dtLast' = dt
        /\ steps' = steps + 1
        /\ UNCHANGED <<matchVars, aiVars, kicked, sinceShot, gameVars>>

NextPlayer ==
    \/ PlayerBallPlaced
    \/ PlayerUpdateOp
    \/ PlayerTryKickOp
    \/ PlayerHandleBallCollisionOp

SpecPlayer == InitPlayer /\ [][NextPlayer]_vars

(***************************************************************************)
(* One agent moving toward a target that stays where it is, frame after    *)
(* frame of the same length                                                *)
(***************************************************************************)
\* the frame times: 60 Hz, 20 Hz and the cap of Application::run
SeekDtSet == {16, 50, 100}

\* where the agent starts
SeekHome == Vec3(-5000, 0, 0)

\* m_targetPos with respect to the start: inside the arrival radius, just
\* outside it, a few metres and a long run away, along an axis and not
SeekOffsets ==
    { Vec3(300, 0, 0), Vec3(600, 0, 0), Vec3(620, 0, 0), Vec3(3000, 0, 0),
      Vec3(0, 0, -10000), Vec3(4000, 0, 3000), Vec3(-700, 0, 2400) }

\* m_velocity when the target is set: at rest, and running at full speed
\* toward, across and away from the targets on the x axis
SeekVelocities ==
    { Zero3, Vec3(AI_MAX_SPEED, 0, 0), Vec3(0, 0, AI_MAX_SPEED),
      Vec3(-AI_MAX_SPEED, 0, 0) }

\* m_currentTargetSpeed, as chaseBall and returnToPosition set it
SeekSpeeds == { AI_MAX_SPEED, Mul(AI_MAX_SPEED, 500) }

InitSeek ==
    /\ ball = Reset(BallState(Zero3, Zero3, Zero3, 0))
    /\ op = "init"
    /\ pre = ball
    /\ dtLast \in SeekDtSet
    /\ steps = 0
    /\ match = NewMatch
    /\ matchPre = NewMatch
    /\ arg = Zero3
    /\ ret = FALSE
    /\ elapsed = 0
    /\ players \in
          { [i \in {0} |->
                [Spawn(SeekHome, 0) EXCEPT !.velocity = v,
                                           !.targetPos = VAdd(SeekHome, o),
                                           !.currentTargetSpeed = sp]] :
                o \in SeekOffsets, v \in SeekVelocities, sp \in SeekSpeeds }
    /\ playersPre = players
    /\ human = Vec3(0, 0, 5000)
    /\ frames = 0
    /\ player = NewPlayer
    /\ playerPre = NewPlayer
    /\ kicked = FALSE
    /\ sinceShot = [i \in {0} |-> NoShot]
    /\ aiEnabled = TRUE
    /\ input = NoInput

\* AIPlayer::moveToward(m_targetPos, m_currentTargetSpeed, deltaTime), with
\* the frame time of the run
AgentMoved ==
    /\ players' = [players EXCEPT ![0] =
                      MoveToward(players[0], players[0].targetPos,
                                 players[0].currentTargetSpeed, dtLast)]
    /\ playersPre' = players
    /\ op' = "moveToward"
    /\ frames' = 1 - frames
    /\ UNCHANGED <<ball, pre, dtLast, steps, matchVars, human, humanVars,
                   gameVars>>

NextSeek == AgentMoved

SpecSeek == InitSeek /\ [][NextSeek]_vars

\* a frame has come: of the number of calls the run keeps the parity
FrameCame == frames' = 1 - frames

\* the frames keep coming, and AIPlayer::update calls moveToward in every
\* frame
SpecSeekLive == SpecSeek /\ WF_frames(FrameCame)

(***************************************************************************)
(* The human controller standing and turning with the camera               *)
(***************************************************************************)
\* the number of Player::update calls of a run
MaxTurns == 3

\* the frames of a standing controller: no movement input, the camera
\* swung to any of the targets
TurnInputs ==
    { [move |-> [direction |-> Zero3, sprinting |-> FALSE], rot |-> r, dt |-> d] :
          r \in TurnTargets \cup TargetRotations, d \in TurnDtSet }

\* Application::processInput and Application::update on the standing
\* controller: setMovementInput, setTargetRotation, Player::update
PlayerTurned ==
    \E in \in TurnInputs :
        /\ steps < MaxTurns
        /\ player' = PlayerUpdate(
                        SetTargetRotation(
                            SetMovementInput(player, in.move.direction,
                                             in.move.sprinting),
                            in.rot),
                        in.dt, BoundsMin, BoundsMax)
        /\ playerPre' = player
        /\ pre' = ball
        /\ op' = "playerUpdate"
        /\ dtLast' = in.dt
        /\ steps' = steps + 1
        /\ UNCHANGED <<ball, matchVars, aiVars, kicked, sinceShot, gameVars>>

NextTurn == PlayerTurned

SpecTurn == InitPlayer /\ [][NextTurn]_vars

(***************************************************************************)
(* The whole game, driven by the frames of Application::run and by the     *)
(* keys of the human                                                       *)
(***************************************************************************)
\* the number of frames of a run
MaxGameFrames == 18

\* the number of key events of a run
MaxKeyEvents == 1

\* the frame time: the cap of Application::run
GameDtSet == {100}

\* std::rand() % 100, as the kicks of a frame take it
GameRands == { <<50, 50>> }

\* the input after a key event: a sprint toward the right goal line, a run
\* up the field, a kick, a sprinting kick with side spin, the ball reset
\* and the AI toggle
KeyInputs ==
    { [NoInput EXCEPT !.movementDirection = Vec3(1000, 0, 0),
                      !.sprinting = TRUE],
      [NoInput EXCEPT !.movementDirection = Vec3(0, 0, -1000)],
      [NoInput EXCEPT !.kickJustPressed = TRUE],
      [NoInput EXCEPT !.kickJustPressed = TRUE, !.sprinting = TRUE,
                      !.spinY = 10000, !.targetRotation = 1571],
      [NoInput EXCEPT !.resetBall = TRUE],
      [NoInput EXCEPT !.toggleAI = TRUE] }

\* the match while a goal of team 0 is celebrated
Celebrating ==
    [NewMatch EXCEPT !.scoreRight = 1, !.goalScored = TRUE,
                     !.celebrationTimer = 2500, !.lastScoringTeam = 0]

\* what the human can arrange while the AI is switched off and the roster
\* stands where createTeams put it: the ball at rest in the right goal
\* during the celebration, with the controller in front of the goal; the
\* ball at the feet of the red forward; the ball a metre in front of the
\* controller; the ball at rest just inside the right goal during the
\* celebration, within the controller's kick range
Scenarios ==
    { [ball |-> BallState(Vec3(53500, 220, 0), Zero3, Zero3, 0),
       match |-> Celebrating,
       player |-> [NewPlayer EXCEPT !.position = Vec3(51200, 0, 300)]],
      [ball |-> BallState(Vec3(52800, 220, 500), Zero3, Zero3, 0),
       match |-> Celebrating,
       player |-> [NewPlayer EXCEPT !.position = Vec3(51500, 0, 500)]],
      [ball |-> BallState(Vec3(-4400, 220, 0), Zero3, Zero3, 0),
       match |-> NewMatch,
       player |-> NewPlayer],
      [ball |-> BallState(Vec3(0, 220, 4000), Zero3, Zero3, 0),
       match |-> NewMatch,
       player |-> NewPlayer] }

InitGame ==
    /\ ball = Reset(BallState(Zero3, Zero3, Zero3, 0))
    /\ op = "init"
    /\ pre = ball
    /\ dtLast = 0
    /\ steps = 0
    /\ match = NewMatch
    /\ matchPre = NewMatch
    /\ arg = Zero3
    /\ ret = FALSE
    /\ elapsed = 0
    /\ InitAI

\* the frames the human plays with the AI switched off by the toggle key
\* from the first frame on, up to the frame that switches it on again
Arranged ==
    \E sc \in Scenarios :
        /\ op = "init"
        /\ ball' = sc.ball
        /\ pre' = sc.ball
        /\ match' = sc.match
        /\ matchPre' = sc.match
        /\ player' = sc.player
        /\ playerPre' = sc.player
        /\ human' = sc.player.position
        /\ op' = "arranged"
        /\ UNCHANGED <<dtLast, steps, arg, ret, elapsed, players, playersPre,
                       frames, kicked, sinceShot, gameVars>>

\* a key event: InputHandler::processEvents and updateKeyboardState find
\* the keys changed
KeyEvent ==
    \E in \in KeyInputs :
        /\ steps < MaxKeyEvents
        /\ frames < MaxGameFrames
        /\ op # "key"
        /\ input' = in
        /\ steps' = steps + 1
        /\ op' = "key"
        /\ UNCHANGED <<ball, pre, dtLast, matchVars, aiVars, humanVars,
                       aiEnabled>>

\* the record of an agent's shots after an update with deltaTime
Tally(old, shot, deltaTime) ==
    IF shot
    THEN [since |-> 0,
          gap |-> IF old.since = -1 THEN -1 ELSE old.since + deltaTime]
    ELSE IF old.since = -1 THEN old
    ELSE [since |-> old.since + deltaTime, gap |-> old.gap]

\* the game as the variables hold it
Game ==
    [ball |-> ball, player |-> player, match |-> match, players |-> players,
     aiEnabled |-> aiEnabled, kicked |-> kicked, ballAtAI |-> ball,
     shots |-> {}]

\* one iteration of the loop of Application::run
GameFrame ==
    \E dt \in GameDtSet, r \in TouchRands, rs \in GameRands :
        /\ frames < MaxGameFrames
        /\ \E g \in { Frame(Game, input, dt, r, rs) } :
              /\ ball' = g.ball
              /\ player' = g.player
              /\ human' = g.player.position
              /\ match' = g.match
              /\ players' = g.players
              /\ aiEnabled' = g.aiEnabled
              /\ kicked' = g.kicked
              /\ pre' = g.ballAtAI
              /\ sinceShot' =
                    [i \in DOMAIN players |->
                        IF g.aiEnabled
                        THEN Tally(sinceShot[i], i \in g.shots, dt)
                        ELSE sinceShot[i]]
        /\ playersPre' = players
        /\ playerPre' = player
        /\ matchPre' = match
        /\ input' = Released(input)
        /\ op' = "frame"
        /\ dtLast' = dt
        /\ frames' = frames + 1
        /\ UNCHANGED <<steps, arg, ret, elapsed>>

NextGame == Arranged \/ KeyEvent \/ GameFrame

SpecGame == InitGame /\ [][NextGame]_vars

(***************************************************************************)
(* Ball Dynamics and Ball: the properties checked under SpecBall           *)
(***************************************************************************)
\* C1: after BallPhysics::update returns, the ball's height is never below
\* the resting height BALL_RADIUS, whatever the state and dt it was given.
C1_GroundClamp == op = "update" => ball.position.y >= BALL_RADIUS

\* a falling ball that went through the floor, was clamped and bounced
C1_Witness ==
    /\ op = "update"
    /\ pre.position.y > BALL_RADIUS
    /\ pre.velocity.y < 0
    /\ ball.position.y = BALL_RADIUS
    /\ ball.velocity.y > 0

AtRest(b) ==
    /\ b.position.y = BALL_RADIUS
    /\ b.velocity = Zero3
    /\ b.angularVelocity = Zero3

\* C2: a ball at rest height with zero velocity and zero spin is left where
\* it is, with the velocity it had, by every BallPhysics::update whose dt is
\* one the caller may pass (0 <= dt <= 0.1).
C2_RestIsEquilibrium ==
    (op = "update" /\ AtRest(pre) /\ dtLast <= 100)
        => (ball.position = pre.position /\ ball.velocity = pre.velocity)

\* C7: after Ball::reset the ball is at the center position (0, 0.5, 0) with
\* zero velocity, zero spin and zero rotation angle, whatever it was before,
\* and a second reset changes nothing.
C7_ResetRoundTrip ==
    op = "reset" =>
        /\ ball.position = Vec3(0, 500, 0)
        /\ ball.velocity = Zero3
        /\ ball.angularVelocity = Zero3
        /\ ball.rotationAngle = 0
        /\ Reset(ball) = ball

\* a reset of a ball that was elsewhere, moving, spinning and rotated
C7_Witness ==
    /\ op = "reset"
    /\ pre.position # Vec3(0, 500, 0)
    /\ pre.velocity # Zero3
    /\ pre.angularVelocity # Zero3
    /\ pre.rotationAngle # 0

\* C8: when the spin magnitude is <= 0.1 or the speed is <= 1.0 at the call
\* (boundaries included), the velocity BallPhysics::update leaves is the one
\* it leaves for the same ball without spin: no Magnus force acted.
C8_MagnusThreshold ==
    (op = "update"
     /\ (Length(pre.angularVelocity) <= 100 \/ Length(pre.velocity) <= 1000))
        => ball.velocity =
               Update([pre EXCEPT !.angularVelocity = Zero3], dtLast, Bounds).velocity

\* an airborne ball faster than 1.0 whose spin is exactly 0.1 and not
\* parallel to its velocity
C8_Witness ==
    /\ op = "update"
    /\ dtLast > 0
    /\ IsInAir(pre)
    /\ Length(pre.angularVelocity) = 100
    /\ Length(pre.velocity) > 1000
    /\ Cross(pre.angularVelocity, pre.velocity) # Zero3

(***************************************************************************)
(* Match State: the properties checked under SpecMatch and SpecMatchLive   *)
(***************************************************************************)
\* C3: once a goal is flagged, every further checkGoal call returns false and
\* leaves the Match object (both scores included) as it was, whatever ball
\* position it is given, and Match::update leaves both scores as they were,
\* until resetAfterGoal runs.
C3_GoalFlaggedOnce ==
    /\ (op = "checkGoal" /\ matchPre.goalScored)
            => (ret = FALSE /\ match = matchPre)
    /\ (op = "matchUpdate" /\ matchPre.goalScored)
            => /\ match.scoreLeft = matchPre.scoreLeft
               /\ match.scoreRight = matchPre.scoreRight

\* checkGoal called during a celebration with the ball beyond the goal line
\* and inside the goal mouth
C3_Witness ==
    /\ op = "checkGoal"
    /\ matchPre.goalScored
    /\ arg = Vec3(53500, 1000, 0)
    /\ match.scoreRight = 1

\* the goal mouth as the claim words it
InMouth(p) ==
    Abs(p.z) * 2 < GOAL_WIDTH /\ 0 < p.y /\ p.y < GOAL_HEIGHT

\* C4: with no goal flagged, checkGoal on a position inside the goal mouth
\* (|z| < goalWidth/2, 0 < y < goalHeight) with x > fieldLength/2 + radius
\* returns true, adds 1 to the right score only, flags the goal, sets the
\* celebration timer to 3.0 and records team 0; with x < -(fieldLength/2 +
\* radius) it does the same for the left score and team 1; on any other
\* position it returns false and changes nothing.
C4_CheckGoalEffect ==
    (op = "checkGoal" /\ ~matchPre.goalScored) =>
        IF InMouth(arg) /\ 2 * arg.x > FIELD_LENGTH + 2 * BALL_RADIUS
        THEN /\ ret = TRUE
             /\ match = [scoreLeft |-> matchPre.scoreLeft,
                         scoreRight |-> matchPre.scoreRight + 1,
                         goalScored |-> TRUE,
                         celebrationTimer |-> 3000,
                         lastScoringTeam |-> 0]
        ELSE IF InMouth(arg) /\ 2 * arg.x < -(FIELD_LENGTH + 2 * BALL_RADIUS)
        THEN /\ ret = TRUE
             /\ match = [scoreLeft |-> matchPre.scoreLeft + 1,
                         scoreRight |-> matchPre.scoreRight,
                         goalScored |-> TRUE,
                         celebrationTimer |-> 3000,
                         lastScoringTeam |-> 1]
        ELSE ret = FALSE /\ match = matchPre

\* the end-to-end scenario: the ball at x = +53.5, y = 1.0, z = 0
C4_Witness ==
    /\ op = "checkGoal"
    /\ ~matchPre.goalScored
    /\ arg = Vec3(53500, 1000, 0)
    /\ ret = TRUE
    /\ match.scoreRight = matchPre.scoreRight + 1
    /\ match.celebrationTimer = 3000

\* the ball as Ball::reset leaves it: center, zero velocity
BallIsReset(b) == b.position = Vec3(0, 500, 0) /\ b.velocity = Zero3

\* C10: a flagged goal is always followed by a return to Playing when
\* Match::update keeps being called with dt > 0; the Match::update that makes
\* the return leaves the goal flag false, the countdown 0 and the ball reset,
\* and it comes only once the dt accumulated since the goal has reached 3.0.
C10_Lifecycle ==
    /\ [](match.goalScored => <>(~match.goalScored))
    /\ []((op = "matchUpdate" /\ matchPre.goalScored /\ ~match.goalScored)
            => /\ match.celebrationTimer = 0
               /\ BallIsReset(ball)
               /\ elapsed >= GOAL_CELEBRATION_DURATION)
    /\ []((op = "matchUpdate" /\ matchPre.goalScored
           /\ elapsed < GOAL_CELEBRATION_DURATION) => match.goalScored)

\* the Match::update that ends a celebration, with the ball still in the
\* goal and moving when it is called and the countdown run past zero
C10_Witness ==
    /\ op = "matchUpdate"
    /\ matchPre.goalScored
    /\ ~match.goalScored
    /\ pre.position.x > 52720
    /\ pre.velocity # Zero3
    /\ matchPre.celebrationTimer < dtLast

(***************************************************************************)
(* Team Coordinator: the properties checked under SpecAI                   *)
(***************************************************************************)
\* the agents of a team that findClosestChasers does not skip as goalkeepers
Outfield(ps, team) == { i \in DOMAIN ps : ps[i].team = team /\ ~ps[i].isGoalkeeper }

\* the outfield agents of a team at the least horizontal distance from
\* ballPos
Nearest(ps, team, ballPos) ==
    LET dist == [i \in Outfield(ps, team) |-> DistanceToBall(ps[i], ballPos)]
    IN { i \in DOMAIN dist : \A j \in DOMAIN dist : dist[i] <= dist[j] }

\* the first enumerated of a set of agents
First(S) == CHOOSE i \in S : \A j \in S : i <= j

\* C5: after findClosestChasers (the first step of AIManager::update), on
\* each team the agents that carry the designated-chaser flag are exactly
\* one outfield agent, the first enumerated of those nearest to the ball as
\* the call found them, whatever the flags were before; no goalkeeper and no
\* second agent carries it
C5_OneChaserPerTeam ==
    op = "aiUpdate" =>
        \A team \in {0, 1} :
            { i \in DOMAIN players :
                players[i].team = team /\ players[i].isClosestChaser }
                = { First(Nearest(playersPre, team, pre.position)) }

\* a call in which two agents of a team were nearest at the same distance,
\* made when another agent of that team carried the flag
C5_Witness ==
    /\ op = "aiUpdate"
    /\ \E team \in {0, 1} :
          /\ Cardinality(Nearest(playersPre, team, pre.position)) = 2
          /\ \E i \in Outfield(playersPre, team) :
                /\ playersPre[i].isClosestChaser
                /\ ~players[i].isClosestChaser

\* C6: after AIManager::update, on each team at most one outfield agent is
\* in state ChaseBall, and every outfield agent that is not the frame's
\* designated chaser is in state ReturnToPosition
C6_NoSwarming ==
    op = "aiUpdate" =>
        \A team \in {0, 1} :
            /\ Cardinality({ i \in Outfield(players, team) :
                               players[i].state = "ChaseBall" }) <= 1
            /\ \A i \in Outfield(players, team) :
                  ~players[i].isClosestChaser =>
                      players[i].state = "ReturnToPosition"

\* a second frame after which both teams have an agent chasing the ball,
\* one of them an agent that was returning to its position the frame before
C6_Witness ==
    /\ op = "aiUpdate"
    /\ frames = 2
    /\ \A team \in {0, 1} :
          \E i \in Outfield(players, team) : players[i].state = "ChaseBall"
    /\ \E i \in DOMAIN players :
          /\ ~players[i].isGoalkeeper
          /\ playersPre[i].state = "ReturnToPosition"
          /\ players[i].state = "ChaseBall"

(***************************************************************************)
(* Human Controller: the properties checked under SpecPlayer               *)
(***************************************************************************)
\* the distance Player::tryKick measures, from the controller's feet to the
\* centre of the ball
KickDistance(p, b) == Length(VSub(b.position, p.position))

\* C11: Player::tryKick succeeds only when the ball is within the kick
\* range (distance below 1.5); otherwise it returns false and changes
\* nothing: the ball's velocity and spin, the kicking flag and the
\* kick-animation timer are what they were.
C11_KickOnlyInRange ==
    op = "tryKick" =>
        /\ kicked => KickDistance(playerPre, pre) < PLAYER_KICK_RANGE
        /\ KickDistance(playerPre, pre) >= PLAYER_KICK_RANGE =>
              /\ ~kicked
              /\ ball = pre
              /\ player = playerPre

\* a kick refused for range while the animation of an earlier kick runs
C11_Witness ==
    /\ op = "tryKick"
    /\ ~kicked
    /\ KickDistance(playerPre, pre) >= PLAYER_KICK_RANGE
    /\ playerPre.isKicking
    /\ playerPre.kickAnimationTimer > 0
    /\ pre.velocity # Zero3

\* C12: a Player::tryKick issued while the timer started by the
\* controller's previous successful kick has not yet expired returns false
\* and leaves the ball unchanged, even if the ball is in range.
C12_CooldownRefusesKick ==
    (op = "tryKick" /\ playerPre.kickAnimationTimer > 0) =>
        (~kicked /\ ball = pre)

\* the horizontal distance from the controller to the ball
HorizontalDistance(p, b) == Length(ToBall(p, b))

\* the distance d is the combined radii, to the rounding of the position
\* (a millimetre on each axis)
AtCombinedRadii(d) == Abs(d - (PLAYER_RADIUS + BALL_RADIUS)) <= 2

\* C20: whenever the ball overlaps the human controller (horizontal
\* distance below the combined radii 0.3 + 0.22) when
\* Player::handleBallCollision is called, on return the ball has been
\* displaced radially so that its horizontal distance to the controller
\* equals the combined radii: they never overlap after the call.
C20_HardSeparation ==
    (/\ op = "handleBallCollision"
     /\ HorizontalDistance(playerPre, pre) < PLAYER_RADIUS + BALL_RADIUS)
        => AtCombinedRadii(HorizontalDistance(player, ball))

\* the ball's speed on the ground plane
HorizontalSpeed(b) == Length(Vec3(b.velocity.x, 0, b.velocity.z))

\* the dribble effect applies: handleBallCollision calls dribble and dribble
\* finds the ball roughly in front
DribbleApplies(p, b) ==
    /\ HorizontalDistance(p, b) < PLAYER_DRIBBLE_RANGE
    /\ GetSpeed(p) > 500
    /\ b.position.y <= BALL_RADIUS + 100
    /\ InFront(ToBall(p, b), PlayerForward(p))

\* the speed s is at most 1.5 times the controller's speed, to the rounding
\* of the two velocity components
WithinDribbleCap(p, s) == s <= Mul(GetSpeed(p), 1500) + 2

\* C21: whenever the dribble effect applies in Player::handleBallCollision,
\* on return the ball's horizontal speed is at most 1.5 times the
\* controller's speed.
C21_DribbleSpeedCap ==
    (op = "handleBallCollision" /\ DribbleApplies(playerPre, pre))
        => WithinDribbleCap(player, HorizontalSpeed(ball))

\* the same with the ball outside the combined radii, where the hard
\* collision does not act after the dribble
DribbleCapOutsideRadii ==
    (/\ op = "handleBallCollision"
     /\ DribbleApplies(playerPre, pre)
     /\ HorizontalDistance(playerPre, pre) >= PLAYER_RADIUS + BALL_RADIUS)
        => WithinDribbleCap(player, HorizontalSpeed(ball))

\* a dribble that had to bring the ball's speed down
DribbleCapActed ==
    /\ op = "handleBallCollision"
    /\ DribbleApplies(playerPre, pre)
    /\ HorizontalDistance(playerPre, pre) >= PLAYER_RADIUS + BALL_RADIUS
    /\ HorizontalSpeed(pre) > Mul(GetSpeed(playerPre), 1500) + 100

\* the angle a brought into the canonical range by whole turns
RECURSIVE Canonical(_)
Canonical(a) ==
    IF a > 3142 THEN Canonical(a - 6283)
    ELSE IF a < -3142 THEN Canonical(a + 6283)
    ELSE a

\* 1 - e^(-6 dt) for the frame times of the model: 0, 0.0916 and 0.4512
TurnFraction(dt) == IF dt = 0 THEN 0 ELSE IF dt = 16 THEN 92 ELSE 451

\* C22: after every Player::update, for any target angle and any dt >= 0,
\* the controller's facing angle lies in [-pi, pi], and it has moved toward
\* the target along the shorter arc by the fraction 1 - e^(-6 dt) of the
\* wrapped angle difference.
C22_ExponentialTurn ==
    op = "playerUpdate" =>
        /\ player.rotation >= -3142
        /\ player.rotation <= 3142
        /\ Abs(Canonical(player.rotation - playerPre.rotation)
               - Mul(Canonical(player.targetRotation - playerPre.rotation),
                     TurnFraction(dtLast))) <= 4

\* a turn whose target is more than half a turn away as the angles stand,
\* and which takes the facing angle across -pi
C22_Witness ==
    /\ op = "playerUpdate"
    /\ dtLast > 0
    /\ Abs(player.targetRotation - playerPre.rotation) > 3142
    /\ playerPre.rotation < -1571
    /\ player.rotation > 1571

(***************************************************************************)
(* Team Coordinator: the collisions, checked under SpecAI                  *)
(***************************************************************************)
\* the horizontal distance between two positions
Apart(u, v) == Length(Vec3(u.x - v.x, 0, u.z - v.z))

\* agent i overlaps nothing: it is 0.5 or more from the ball, 0.8 or more
\* from the human controller and 0.7 or more from every other agent (each
\* to the millimetre rounding of the model)
Clear(ps, b, playerPos, i) ==
    /\ Apart(b.position, ps[i].position) >= 500 - 2
    /\ Apart(playerPos, ps[i].position) >= 800 - 2
    /\ \A j \in DOMAIN ps :
          j # i => Apart(ps[j].position, ps[i].position) >= 700 - 2

\* C15: handleCollisions resolves all overlaps: when AIManager::update
\* returns, no agent is closer than 0.5 to the ball, closer than 0.8 to the
\* human controller, or closer than 0.7 to any other agent.
C15_NoOverlapOnReturn ==
    op = "aiUpdate" => \A i \in DOMAIN players : Clear(players, ball, human, i)

(***************************************************************************)
(* Agent: the properties checked under SpecAgent                           *)
(***************************************************************************)
\* the x of the goal line an agent defends
OwnGoalX(ai) == IF ai.team = 0 THEN -52500 ELSE 52500

\* the ball is on the side of the offensive limit where ai's team pursues
PursuitSide(ai, ballX) == IF ai.team = 0 THEN ballX < 40000 ELSE ballX > -40000

\* the condition under which an agent at that position is to chase
ChaseCondition(ai, ballPos) ==
    /\ Apart(ballPos, ai.position) < 35000
    /\ \/ /\ ai.isGoalkeeper
          /\ Abs(ballPos.x - OwnGoalX(ai)) < 20000
          /\ Apart(ballPos, ai.position) < 15000
       \/ /\ ~ai.isGoalkeeper
          /\ ai.isClosestChaser
          /\ PursuitSide(ai, ballPos.x)

C19_RoleFromHome ==
    \A i \in DOMAIN players :
        /\ players[i].isGoalkeeper <=> Abs(players[i].homePosition.x) > 40000
        /\ players[i].isDefender <=>
              /\ Abs(players[i].homePosition.x) > 30000
              /\ Abs(players[i].homePosition.x) <= 40000
        /\ op = "agentUpdate" =>
              /\ players[i].isGoalkeeper = playersPre[i].isGoalkeeper
              /\ players[i].isDefender = playersPre[i].isDefender
              /\ players[i].homePosition = playersPre[i].homePosition

\* an agent whose home is at |x| = 40, a defender still after it has moved
C19_Witness ==
    /\ op = "agentUpdate"
    /\ Abs(players[0].homePosition.x) = 40000
    /\ players[0].isDefender
    /\ ~players[0].isGoalkeeper
    /\ players[0].position # players[0].homePosition

(***************************************************************************)
(* The whole game: the properties checked under SpecGame                   *)
(***************************************************************************)
\* the position is inside the field-interior bounds of Application::update
Interior(pos) ==
    /\ BoundsMin.x <= pos.x /\ pos.x <= BoundsMax.x
    /\ BoundsMin.z <= pos.z /\ pos.z <= BoundsMax.z

\* C13: the human controller's position is inside the field-interior
\* bounds (boundsMin <= position <= boundsMax in x and in z) at the end of
\* every frame of the main loop, whatever the movement inputs, kicks and
\* collisions.
C13_ControllerInside == op = "frame" => Interior(player.position)

\* the controller sprinting into the boundary and held on it
C13_Witness ==
    /\ op = "frame"
    /\ player.position.x = BoundsMax.x
    /\ player.velocity.x > 0
    /\ playerPre.position.x < BoundsMax.x

\* C14: every agent's position is inside |x| <= fieldLength/2 - 1 and
\* |z| <= fieldWidth/2 - 1 at the end of every AIManager::update, also
\* after the collision resolution.
C14_AgentsInside ==
    (op = "frame" /\ aiEnabled) =>
        \A i \in DOMAIN players : Interior(players[i].position)

\* C16: at every frame boundary the ball's position.y is at least the ball
\* radius.
C16_BallAboveGround == ball.position.y >= BALL_RADIUS

\* the ball of the kick-off, come down on the ground and bouncing off it
\* with nobody near
C16_Witness ==
    /\ op = "frame"
    /\ ball.position.y = BALL_RADIUS
    /\ ball.velocity.y > 0
    /\ ball.position.x = 0
    /\ ball.position.z = 0

\* agent i took a shot in the frame that led to this state
ShotNow(i) == op = "frame" /\ aiEnabled /\ sinceShot[i].since = 0

\* agent i as it stood in that frame when AIPlayer::update came to the kick:
\* after the cooldown tick, decideAction and moveToward
KickStance(i) ==
    Pursue(DecideAction(TickCooldown([playersPre[i] EXCEPT !.isClosestChaser =
                                         players[i].isClosestChaser],
                                     dtLast),
                        pre.position, pre.velocity, FIELD_LENGTH),
           dtLast)

\* C17: an agent shoots only if the ball is nearer than 1.0, its cooldown
\* is at most 0 and the ball is grounded; every shot starts a cooldown of
\* 1.5 s; so two shots of the same agent are separated by at least 1.5 s of
\* accumulated deltaTime.
C17_ShotsRespectCooldown ==
    \A i \in DOMAIN players :
        /\ ShotNow(i) =>
              /\ DistanceToBall(KickStance(i), pre.position) < AI_KICK_RANGE
              /\ KickStance(i).kickCooldown <= 0
              /\ IsLow(pre)
              /\ players[i].kickCooldown = AI_KICK_COOLDOWN
        /\ sinceShot[i].gap = -1 \/ sinceShot[i].gap >= AI_KICK_COOLDOWN

\* the second shot of an agent
C17_Witness ==
    \E i \in DOMAIN players : ShotNow(i) /\ sinceShot[i].gap >= AI_KICK_COOLDOWN

\* C23: the facing step of AIPlayer::update yields the same angle as
\* Player::updateRotation does for the same current angle, target angle,
\* turn rate and dt, so every agent's facing angle is in [-pi, pi] after
\* every update.
C23_FacingLikeController ==
    (op = "frame" /\ aiEnabled) =>
        \A i \in DOMAIN players :
            /\ players[i].rotation =
                  RotationStep(playersPre[i].rotation, players[i].targetRotation,
                               AI_ROTATION_SPEED, dtLast)
            /\ players[i].rotation >= -3142
            /\ players[i].rotation <= 3142

(***************************************************************************)
(* The boundaries, checked under SpecBall                                  *)
(***************************************************************************)
\* the goal-mouth window: between the posts and under the crossbar
InGoalWindow(p) == Abs(p.z) < Div(GOAL_WIDTH, 2000) /\ p.y < GOAL_HEIGHT

\* C24: after Ball::update followed by Match::handleBoundaryCollision the
\* ball is inside the side boundaries (|z| <= fieldWidth/2 - radius), and
\* it is beyond an end boundary (|x| > fieldLength/2 - radius) only if it
\* is within the goal-mouth window (|z| < goalWidth/2 and y < goalHeight).
C24_BallStepInsideField ==
    op = "handleBoundaryCollision" =>
        /\ Abs(ball.position.z) <= Div(FIELD_WIDTH, 2000) - BALL_RADIUS
        /\ Abs(ball.position.x) > Div(FIELD_LENGTH, 2000) - BALL_RADIUS
              => InGoalWindow(ball.position)

\* a ball that Ball::update left on the end line beside the goal, turned
\* back a radius inside the line
C24_Witness ==
    /\ op = "handleBoundaryCollision"
    /\ pre.position.x > Div(FIELD_LENGTH, 2000) - BALL_RADIUS
    /\ ~InGoalWindow(pre.position)
    /\ ball.position.x = Div(FIELD_LENGTH, 2000) - BALL_RADIUS
    /\ ball.velocity.x < 0

\* BallPhysics::handleFieldBoundaries reflects b at an end boundary
EndRuleFires(b) ==
    Abs(b.position.x) > Div(FIELD_LENGTH, 2000) /\ ~InGoalWindow(b.position)

\* BallPhysics::handleFieldBoundaries reflects b at a side boundary
SideRuleFires(b) == Abs(b.position.z) > Div(FIELD_WIDTH, 2000) + 500

\* the velocity component after points from the position at toward the
\* field or is zero, and is not larger than the component before
TurnedBack(at, before, after) ==
    /\ at > 0 => after <= 0
    /\ at < 0 => after >= 0
    /\ Abs(after) <= Abs(before)

\* C25: whenever BallPhysics::handleFieldBoundaries reflects the ball at a
\* side or end boundary, the resulting velocity component normal to that
\* boundary points back into the field (or is zero) and its magnitude is
\* not larger than before the reflection, whatever the ball's direction of
\* travel when the rule fires.
C25_ReflectionPointsInward ==
    op = "update" =>
        /\ EndRuleFires(Integrated(pre, dtLast)) =>
              TurnedBack(ball.position.x, Integrated(pre, dtLast).velocity.x,
                         ball.velocity.x)
        /\ SideRuleFires(Integrated(pre, dtLast)) =>
              TurnedBack(ball.position.z, Integrated(pre, dtLast).velocity.z,
                         ball.velocity.z)

\* the same for a ball that travels outward when the rule fires
ReflectionOfOutwardBall ==
    op = "update" =>
        /\ (/\ EndRuleFires(Integrated(pre, dtLast))
            /\ Integrated(pre, dtLast).velocity.x * ball.position.x >= 0) =>
              TurnedBack(ball.position.x, Integrated(pre, dtLast).velocity.x,
                         ball.velocity.x)
        /\ SideRuleFires(Integrated(pre, dtLast)) =>
              TurnedBack(ball.position.z, Integrated(pre, dtLast).velocity.z,
                         ball.velocity.z)

(***************************************************************************)
(* Agent: seek and arrive, checked under SpecSeekLive                      *)
(***************************************************************************)
\* the distance on the ground from the agent to its target
DistanceToTarget(ai) ==
    Length(Vec3(ai.targetPos.x - ai.position.x, 0,
                ai.targetPos.z - ai.position.z))

\* the agent is at rest within 0.5 of its target
Arrived(ai) == ai.velocity = Zero3 /\ DistanceToTarget(ai) <= 500

\* C26: for a fixed target, a fixed dt in (0, 0.1] and no collisions,
\* repeated AIPlayer::moveToward calls eventually bring the agent to rest
\* within 0.5 of the target, and from then on it stays at rest.
C26_SeekAndArrive == <>[]Arrived(players[0])

\* an agent that has just come to rest at its target after a run from more
\* than five metres away
C26_Witness ==
    /\ op = "moveToward"
    /\ Arrived(players[0])
    /\ playersPre[0].velocity # Zero3
    /\ Length(VSub(players[0].targetPos, players[0].homePosition)) > 5000

(***************************************************************************)
(* The frame during a goal celebration, checked under SpecGame             *)
(***************************************************************************)
\* the kick key went down with the ball within the controller's kick range
KickCalledFor == input.kickJustPressed /\ KickDistance(player, ball) < PLAYER_KICK_RANGE

\* C27: while the match is Celebrating, every per-frame step that runs
\* while Playing still runs in the frame: in particular a kick attempt of
\* the human controller with the ball in range kicks, which leaves the
\* controller in its kick animation at the end of the frame.
C27_CelebrationRunsEverything ==
    [][(op' = "frame" /\ match.goalScored /\ KickCalledFor) => player'.isKicking]_vars

\* the same while Playing
KickRunsWhilePlaying ==
    [][(op' = "frame" /\ ~match.goalScored /\ KickCalledFor) => player'.isKicking]_vars

(***************************************************************************)
(* Match State: the goal flag, the countdown and the scores, checked under *)
(* SpecMatch                                                               *)
(***************************************************************************)
\* C28: in every state reached through Match::reset, checkGoal,
\* resetAfterGoal and Match::update with dt >= 0, the goal flag is true
\* exactly when the celebration timer is > 0, the timer lies in [0, 3.0],
\* and a true flag implies that the last scoring team is 0 or 1.
C28_FlagTimerTeam ==
    /\ match.goalScored <=> match.celebrationTimer > 0
    /\ 0 <= match.celebrationTimer
    /\ match.celebrationTimer <= GOAL_CELEBRATION_DURATION
    /\ match.goalScored => match.lastScoringTeam \in {0, 1}

\* a celebration of a goal of team 1 counted down by Match::update to less
\* than one more frame
C28_Witness ==
    /\ op = "matchUpdate"
    /\ dtLast > 0
    /\ match.lastScoringTeam = 1
    /\ match.goalScored
    /\ match.celebrationTimer < dtLast

\* the calls that end a celebration: resetAfterGoal itself and the
\* Match::update that calls it
EndsCelebration ==
    \/ op = "resetAfterGoal"
    \/ op = "matchUpdate" /\ matchPre.goalScored /\ ~match.goalScored

\* the call detected a goal
GoalDetected == ~matchPre.goalScored /\ match.goalScored

\* C29: over Match::update, checkGoal and resetAfterGoal calls neither score
\* ever decreases, each detected goal raises exactly one of the two scores
\* by exactly 1 (and no score changes without one), the end of a
\* celebration leaves both scores and the last scoring team unchanged, and
\* only Match::reset sets the scores back to 0.
C29_ScoresMonotone ==
    /\ op \in {"matchUpdate", "checkGoal", "resetAfterGoal"}
            => /\ match.scoreLeft >= matchPre.scoreLeft
               /\ match.scoreRight >= matchPre.scoreRight
               /\ IF GoalDetected
                  THEN match.scoreLeft + match.scoreRight
                            = matchPre.scoreLeft + matchPre.scoreRight + 1
                  ELSE /\ match.scoreLeft = matchPre.scoreLeft
                       /\ match.scoreRight = matchPre.scoreRight
    /\ EndsCelebration
            => /\ match.scoreLeft = matchPre.scoreLeft
               /\ match.scoreRight = matchPre.scoreRight
               /\ match.lastScoringTeam = matchPre.lastScoringTeam
    /\ op = "matchReset" => match.scoreLeft = 0 /\ match.scoreRight = 0
    /\ (match.scoreLeft < matchPre.scoreLeft
            \/ match.scoreRight < matchPre.scoreRight) => op = "matchReset"

\* the Match::update that ends the celebration of a goal of team 1, scored
\* after a goal of team 0, with both scores kept
C29_Witness ==
    /\ op = "matchUpdate"
    /\ matchPre.goalScored
    /\ ~match.goalScored
    /\ match.scoreLeft = 1
    /\ match.scoreRight = 1
    /\ match.lastScoringTeam = 1

(***************************************************************************)
(* Team Coordinator: the two ways an agent is a goalkeeper, checked under  *)
(* SpecAI                                                                  *)
(***************************************************************************)
\* the agents findClosestChasers skips as goalkeepers
SkippedAsGoalkeeper(i) == (i = 0) \/ (i = 6)

\* the fields of an agent that make up the roster
RosterEntry(ai) ==
    [homePosition |-> ai.homePosition, team |-> ai.team,
     isGoalkeeper |-> ai.isGoalkeeper, isDefender |-> ai.isDefender]

\* C30: in the roster of createTeams the agents findClosestChasers skips as
\* goalkeepers (indices 0 and 6) are exactly the agents whose goalkeeper
\* flag role inference set (|home.x| > 40), so the chaser chosen for a team
\* is never a flagged goalkeeper, and the roster does not change after
\* createTeams.
C30_GoalkeepersAgree ==
    /\ DOMAIN players = 0..10
    /\ \A i \in DOMAIN players :
          /\ SkippedAsGoalkeeper(i) <=> players[i].isGoalkeeper
          /\ players[i].isGoalkeeper <=> Abs(players[i].homePosition.x) > 40000
          /\ players[i].isClosestChaser => ~players[i].isGoalkeeper
          /\ RosterEntry(players[i]) = RosterEntry(CreateTeams[i])

\* an AIManager::update with the ball nearer to the goalkeeper of team 1
\* than to any other agent of the team: an outfield agent is the chaser
C30_Witness ==
    /\ op = "aiUpdate"
    /\ ~players[6].isClosestChaser
    /\ \E i \in 7..10 : players[i].isClosestChaser
    /\ \A i \in 7..10 :
          DistanceToBall(playersPre[6], pre.position)
              < DistanceToBall(playersPre[i], pre.position)

====
